---- MODULE Spec2Model ----
(***************************************************************************)
(* Churn-prediction service: the recommendation generator                  *)
(* (api/agents/recommendation_agent.py), the drift detector                *)
(* (api/agents/monitoring_agent.py), the inference preprocessing           *)
(* (api/inference_preprocess.py) and the two endpoints predict_churn and   *)
(* generate_recommendations_report_endpoint of api/main.py.                *)
(*                                                                         *)
(* Values.  A cell of a DataFrame or a Python scalar is one of             *)
(*   [t |-> "num", n |-> a, d |-> b]  the number a/b (b > 0, lowest terms) *)
(*   [t |-> "str", s |-> "..."]       a string                             *)
(*   [t |-> "nan"]                    float NaN (pandas' missing cell)     *)
(*   [t |-> "none"]                   Python None                          *)
(* Numbers are exact rationals: float64 rounding error is not modelled.    *)
(* A formatted text (f-string, str.join) is a sequence of string tokens.   *)
(***************************************************************************)
EXTENDS Integers, Sequences, FiniteSets, TLC

VARIABLES
    args,             \* SpecRec, SpecUrgency, SpecCut: the arguments of the function called
    rec_result,       \* SpecRec, SpecUrgency, SpecCut: what it returned, else None
    churners_data,    \* Spec: the request body, a list of dicts
    df_churners,      \* Spec: pd.DataFrame(churners_data)
    recommendations,  \* Spec: the list generate_recommendations_report builds
    pc,               \* Spec, SpecEndpoint, SpecPredict: position of the request
    new_data_df,      \* SpecNum, SpecDrift: the new batch
    baseline_df,      \* SpecNum, SpecDrift: the baseline
    finding,          \* SpecNum, SpecCat: what the feature check returned, else None
    drift_results,    \* SpecDrift, SpecEndpoint: what the drift analysis gave, else None
    baseline_file,    \* SpecEndpoint, SpecServer: the baseline data on disk, or NotFound
    html_content,     \* SpecEndpoint: what generate_html_report returned, else None
    report_file,      \* SpecEndpoint, SpecServer: the content of drift_report.html, else None
    response,         \* SpecEndpoint: what the endpoint returned, else None
    exc,              \* SpecEndpoint: the exception being propagated, else None
    contents,         \* SpecPredict: the uploaded CSV, a list of lines of text cells
    heap,             \* SpecPredict: the DataFrame objects, by identity
    df_upload,        \* SpecPredict: df, the frame read from the upload (a reference)
    original_data,    \* SpecPredict: what df.copy() returned (a reference)
    df_processed,     \* SpecPredict: what preprocess_inference returned (a reference)
    k_value,          \* SpecPredict: the query parameter, None when absent
    xgb_threshold,    \* SpecPredict: the threshold loaded at start-up
    proba,            \* SpecPredict: the probabilities of the classifier
    preds,            \* SpecPredict: the 0/1 predictions
    prediction,       \* SpecPredict: what predict_churn returned, else None
    requests,         \* SpecServer: the report requests, by number
    running,          \* SpecServer: the request the event loop is running, else 0
    log               \* SpecServer: the requests answered so far, in order

vars ==
    <<args, rec_result, churners_data, df_churners, recommendations, pc,
      new_data_df, baseline_df, finding, drift_results,
      baseline_file, html_content, report_file, response, exc,
      contents, heap, df_upload, original_data, df_processed, k_value,
      xgb_threshold, proba, preds, prediction, requests, running, log>>

----------------------------------------------------------------------------
(* Bounds of the model *)

MaxRows == 2        \* rows in a request body

MaxMissing == 1     \* keys a request row may lack

MaxCells == 2       \* cells of a column handed to _check_numerical_drift

MaxDriftRows == 2   \* rows of a frame handed to check_for_drift

MaxMissingCols == 1 \* monitored columns a frame handed to check_for_drift may lack

MaxCatCells == 5    \* values of a column handed to _check_categorical_drift

MaxEndpointRows == 2 \* rows in the body of a report request

----------------------------------------------------------------------------
(* Numbers *)

Abs(x) == IF x < 0 THEN -x ELSE x

RECURSIVE GCD(_, _)
GCD(a, b) == IF b = 0 THEN a ELSE GCD(b, a % b)

\* the number n/d (d # 0) in lowest terms with a positive denominator
Rat(n, d) ==
    LET g == GCD(Abs(n), Abs(d))
        s == IF d < 0 THEN -1 ELSE 1
    IN  [t |-> "num", n |-> (s * n) \div g, d |-> (s * d) \div g]

Num(k) == [t |-> "num", n |-> k, d |-> 1]

Str(s) == [t |-> "str", s |-> s]

NaN == [t |-> "nan"]

None == [t |-> "none"]

IsNum(x) == x.t = "num"

\* Python's x > y, x < y on floats: any comparison with NaN is False
PyGT(x, y) == IsNum(x) /\ IsNum(y) /\ x.n * y.d > y.n * x.d

PyLT(x, y) == IsNum(x) /\ IsNum(y) /\ x.n * y.d < y.n * x.d

\* Python's x * y on floats: NaN propagates
PyMul(x, y) == IF IsNum(x) /\ IsNum(y) THEN Rat(x.n * y.n, x.d * y.d) ELSE NaN

\* round-half-even of the rational n/d (d > 0) to an integer
RoundHalfEven(n, d) ==
    LET q == n \div d
        r == n % d
    IN  IF 2 * r < d THEN q
        ELSE IF 2 * r > d THEN q + 1
        ELSE IF q % 2 = 0 THEN q ELSE q + 1

\* the digits after the second decimal cut off
PyRound2_Truncate(x) == IF IsNum(x) THEN Rat((100 * x.n) \div x.d, 100) ELSE NaN

\* Python's round(x, 2): NaN stays NaN
PyRound2(x) == IF IsNum(x) THEN Rat(RoundHalfEven(100 * x.n, x.d), 100) ELSE NaN

----------------------------------------------------------------------------
(* Texts *)

SEP == " | "

RECURSIVE Join(_)
\* " | ".join(list): the items with a separator token between neighbours
Join(list) ==
    IF Len(list) = 0 THEN <<>>
    ELSE IF Len(list) = 1 THEN <<list[1]>>
    ELSE <<list[1], SEP>> \o Join(Tail(list))

RECURSIVE Segments(_)
\* text.split(" | "): the pieces between the separators, one empty piece for
\* the empty text
Segments(text) ==
    IF Len(text) = 0 THEN <<"">>
    ELSE IF text[1] = SEP THEN <<"">> \o Segments(Tail(text))
    ELSE IF Len(text) = 1 THEN <<text[1]>>
    ELSE IF text[2] = SEP THEN <<text[1]>> \o Segments(SubSeq(text, 3, Len(text)))
    ELSE Segments(<<text[1] \o text[2]>> \o SubSeq(text, 3, Len(text)))

----------------------------------------------------------------------------
(* recommendation_agent.py *)

URGENT20 == "URGENT: Offer immediate 20% discount for 12-month contract commitment"
OFFER15 == "Offer 15% discount for 12-month contract upgrade"
OFFER10 == "Offer 10% discount for 24-month contract extension"
PREMIUM == "Consider premium retention package with added value services"
MIDTIER == "Offer mid-tier service bundle with 10% discount"
LOYALTY == "Provide loyalty discount and service upgrade options"
MANAGER == "Assign dedicated customer success manager for first-year support"
REWARDS == "Offer loyalty rewards and service enhancement consultation"
LONGTERM == "Recognize long-term loyalty with exclusive benefits program"
TECHSUPPORT == "Offer complimentary tech support for 6 months"
SECURITY == "Provide free online security service trial"
BACKUP == "Include free cloud backup service"
DEVICE == "Offer device protection plan at 50% discount"
STREAMING == "Bundle streaming services at promotional rate"
AUTOPAY == "Incentivize automatic payment setup with billing discount"
FIBER == "Offer fiber upgrade with installation incentives"

\* lines 72-79: the contract rule
ContractRule_GE(recs, contract, churn_prob) ==
    IF contract = Str("Month-to-month")
    THEN IF ~PyLT(churn_prob, Rat(7, 10)) /\ IsNum(churn_prob)
         THEN Append(recs, URGENT20)
         ELSE Append(recs, OFFER15)
    ELSE IF contract = Str("One year")
         THEN Append(recs, OFFER10)
         ELSE recs

ContractRule(recs, contract, churn_prob) ==
    IF contract = Str("Month-to-month")
    THEN IF PyGT(churn_prob, Rat(7, 10))
         THEN Append(recs, URGENT20)
         ELSE Append(recs, OFFER15)
    ELSE IF contract = Str("One year")
         THEN Append(recs, OFFER10)
         ELSE recs

\* lines 81-87: the pricing rule
PricingRule(recs, monthly_charges) ==
    IF PyGT(monthly_charges, Num(80)) THEN Append(recs, PREMIUM)
    ELSE IF PyGT(monthly_charges, Num(50)) THEN Append(recs, MIDTIER)
    ELSE Append(recs, LOYALTY)

\* the tenure rule without its else branch
TenureRule_NoElse(recs, tenure) ==
    IF PyLT(tenure, Num(12)) THEN Append(recs, MANAGER)
    ELSE IF PyLT(tenure, Num(24)) THEN Append(recs, REWARDS)
    ELSE recs

\* lines 89-95: the tenure rule
TenureRule(recs, tenure) ==
    IF PyLT(tenure, Num(12)) THEN Append(recs, MANAGER)
    ELSE IF PyLT(tenure, Num(24)) THEN Append(recs, REWARDS)
    ELSE Append(recs, LONGTERM)

\* lines 97-108: the service rules
ServiceRules_SecurityFirst(recs, tech_support, online_security, online_backup, device_protection) ==
    LET r1 == IF online_security = Str("No") THEN Append(recs, SECURITY) ELSE recs
        r2 == IF tech_support = Str("No") THEN Append(r1, TECHSUPPORT) ELSE r1
        r3 == IF online_backup = Str("No") THEN Append(r2, BACKUP) ELSE r2
    IN  IF device_protection = Str("No") THEN Append(r3, DEVICE) ELSE r3

ServiceRules(recs, tech_support, online_security, online_backup, device_protection) ==
    LET r1 == IF tech_support = Str("No") THEN Append(recs, TECHSUPPORT) ELSE recs
        r2 == IF online_security = Str("No") THEN Append(r1, SECURITY) ELSE r1
        r3 == IF online_backup = Str("No") THEN Append(r2, BACKUP) ELSE r2
    IN  IF device_protection = Str("No") THEN Append(r3, DEVICE) ELSE r3

\* lines 110-112: the entertainment rule
StreamingRule(recs, streaming_tv, streaming_movies) ==
    IF streaming_tv = Str("No") /\ streaming_movies = Str("No")
    THEN Append(recs, STREAMING) ELSE recs

\* lines 114-116: the payment rule
PaymentRule(recs, payment_method) ==
    IF payment_method = Str("Electronic check") THEN Append(recs, AUTOPAY) ELSE recs

\* lines 118-120: the internet-service rule
InternetRule(recs, internet_service) ==
    IF internet_service = Str("DSL") THEN Append(recs, FIBER) ELSE recs

FirstFive(list) == SubSeq(list, 1, IF Len(list) < 5 THEN Len(list) ELSE 5)

\* line 122: recommendations[:4]
FirstFour(list) == SubSeq(list, 1, IF Len(list) < 4 THEN Len(list) ELSE 4)

\* the entertainment rule moved behind the payment and internet rules
Recommendation_StreamingLast(contract, internet_service, monthly_charges, tenure, payment_method, tech_support, online_security, online_backup, device_protection, streaming_tv, streaming_movies, churn_prob) ==
    LET r1 == ContractRule(<<>>, contract, churn_prob)
        r2 == PricingRule(r1, monthly_charges)
        r3 == TenureRule(r2, tenure)
        r4 == ServiceRules(r3, tech_support, online_security, online_backup,
                           device_protection)
        r5 == PaymentRule(r4, payment_method)
        r6 == InternetRule(r5, internet_service)
        r7 == StreamingRule(r6, streaming_tv, streaming_movies)
    IN  Join(FirstFour(r7))

_generate_personalized_recommendation(contract, internet_service, monthly_charges, tenure, payment_method, tech_support, online_security, online_backup, device_protection, streaming_tv, streaming_movies, churn_prob) ==
    LET r1 == ContractRule(<<>>, contract, churn_prob)
        r2 == PricingRule(r1, monthly_charges)
        r3 == TenureRule(r2, tenure)
        r4 == ServiceRules(r3, tech_support, online_security, online_backup,
                           device_protection)
        r5 == StreamingRule(r4, streaming_tv, streaming_movies)
        r6 == PaymentRule(r5, payment_method)
        r7 == InternetRule(r6, internet_service)
    IN  Join(FirstFour(r7))

\* the cutoffs compared with >= instead of >
Urgency_GE(churn_prob, tenure) ==
    IF IsNum(churn_prob) /\ ~PyLT(churn_prob, Rat(8, 10)) THEN "CRITICAL"
    ELSE IF IsNum(churn_prob) /\ ~PyLT(churn_prob, Rat(6, 10)) THEN "HIGH"
    ELSE IF IsNum(churn_prob) /\ ~PyLT(churn_prob, Rat(4, 10)) THEN "MEDIUM"
    ELSE "LOW"

\* a customer of less than a year is moved from HIGH to CRITICAL
Urgency_TenureAware(churn_prob, tenure) ==
    IF PyGT(churn_prob, Rat(8, 10)) THEN "CRITICAL"
    ELSE IF PyGT(churn_prob, Rat(6, 10))
    THEN (IF PyLT(tenure, Num(12)) THEN "CRITICAL" ELSE "HIGH")
    ELSE IF PyGT(churn_prob, Rat(4, 10)) THEN "MEDIUM"
    ELSE "LOW"

_calculate_urgency_level(churn_prob, tenure) ==
    IF PyGT(churn_prob, Rat(8, 10)) THEN "CRITICAL"
    ELSE IF PyGT(churn_prob, Rat(6, 10)) THEN "HIGH"
    ELSE IF PyGT(churn_prob, Rat(4, 10)) THEN "MEDIUM"
    ELSE "LOW"

\* pd.DataFrame(list of dicts): the columns are the union of the rows' keys,
\* a key a row lacks becomes a NaN cell
DataFrame(data) ==
    LET columns == UNION {DOMAIN data[i] : i \in 1..Len(data)}
    IN  [columns |-> columns,
         rows |-> [i \in 1..Len(data) |->
                     [c \in columns |-> IF c \in DOMAIN data[i] THEN data[i][c] ELSE NaN]]]

\* Series.get(key, default): the default only when the index lacks the key
Get(customer, key, default) ==
    IF key \in DOMAIN customer THEN customer[key] ELSE default

\* lines 19-59: the body of the loop over df_churners.iterrows()
RowRecommendation(customer) ==
    LET customer_id == Get(customer, "customerID", Str("Unknown"))
        churn_prob == Get(customer, "churn_probability", Num(0))
        contract == Get(customer, "Contract", Str("Unknown"))
        internet_service == Get(customer, "InternetService", Str("Unknown"))
        monthly_charges == Get(customer, "MonthlyCharges", Num(0))
        tenure == Get(customer, "tenure", Num(0))
        payment_method == Get(customer, "PaymentMethod", Str("Unknown"))
        tech_support == Get(customer, "TechSupport", Str("Unknown"))
        online_security == Get(customer, "OnlineSecurity", Str("Unknown"))
        online_backup == Get(customer, "OnlineBackup", Str("Unknown"))
        device_protection == Get(customer, "DeviceProtection", Str("Unknown"))
        streaming_tv == Get(customer, "StreamingTV", Str("Unknown"))
        streaming_movies == Get(customer, "StreamingMovies", Str("Unknown"))
        recommendation_text ==
            _generate_personalized_recommendation(
                contract, internet_service, monthly_charges, tenure, payment_method,
                tech_support, online_security, online_backup, device_protection,
                streaming_tv, streaming_movies, churn_prob)
        urgency == _calculate_urgency_level(churn_prob, tenure)
        revenue_at_risk == PyMul(monthly_charges, Num(12))
    IN  [customer_id |-> customer_id,
         churn_probability |-> PyRound2(PyMul(churn_prob, Num(100))),
         urgency_level |-> urgency,
         revenue_at_risk |-> PyRound2(revenue_at_risk),
         recommendation |-> recommendation_text,
         contract_type |-> contract,
         monthly_charges |-> monthly_charges,
         tenure_months |-> tenure,
         internet_service |-> internet_service,
         payment_method |-> payment_method]

RECURSIVE PrependLoop(_, _, _)
PrependLoop(rows, i, acc) ==
    IF i > Len(rows) THEN acc
    ELSE PrependLoop(rows, i + 1, <<RowRecommendation(rows[i])>> \o acc)

\* the loop inserting each Recommendation at the front of the list
Report_Prepend(df) == PrependLoop(df.rows, 1, <<>>)

RECURSIVE RowLoop(_, _, _)
\* lines 18, 48: the loop over the rows, appending one dict per row
RowLoop(rows, i, acc) ==
    IF i > Len(rows) THEN acc
    ELSE RowLoop(rows, i + 1, Append(acc, RowRecommendation(rows[i])))

\* lines 16-61
generate_recommendations_report(df) == RowLoop(df.rows, 1, <<>>)

----------------------------------------------------------------------------
(* monitoring_agent.py *)

\* line 27
numerical_features == <<"tenure", "MonthlyCharges", "TotalCharges">>

\* line 28
categorical_features == <<"Contract", "InternetService", "PaymentMethod", "gender">>

\* df[feature]: the cells of a column, top to bottom
Column(df, feature) == [i \in 1..Len(df.rows) |-> df.rows[i][feature]]

\* the strings pd.to_numeric parses among those the model's columns hold
NumericStrings == [s \in {"9"} |-> Num(9)]

\* pd.to_numeric(cell, errors='coerce'): a number stays, a numeric string is
\* parsed, anything else becomes NaN
ToNumeric(cell) ==
    IF cell.t = "num" THEN cell
    ELSE IF cell.t = "str" /\ cell.s \in DOMAIN NumericStrings THEN NumericStrings[cell.s]
    ELSE NaN

\* Series.dropna()
DropNa(col) == SelectSeq(col, LAMBDA c : c.t # "nan")

\* lines 77-78: pd.to_numeric(df[feature], errors='coerce').dropna()
CleanNumeric(df, feature) ==
    DropNa([i \in 1..Len(df.rows) |-> ToNumeric(df.rows[i][feature])])

RECURSIVE Sum(_)
Sum(values) ==
    IF Len(values) = 0 THEN Num(0)
    ELSE LET h == Head(values)
             r == Sum(Tail(values))
         IN  Rat(h.n * r.d + r.n * h.d, h.d * r.d)

\* Series.mean() of a non-empty series
Mean(values) == LET t == Sum(values) IN Rat(t.n, t.d * Len(values))

PySub(x, y) == Rat(x.n * y.d - y.n * x.d, x.d * y.d)

PyDiv(x, y) == Rat(x.n * y.d, x.d * y.n)

PyAbs(x) == Rat(Abs(x.n), x.d)

\* Series.std(): the sample standard deviation (ddof = 1) of the values, kept
\* as [t |-> "std", of |-> values] without taking the root; NaN for a single
\* value
Std(values) ==
    IF Len(values) < 2 THEN NaN ELSE [t |-> "std", of |-> values]

\* the digits of 0..99 on two places
TwoDigits(k) == IF k < 10 THEN "0" \o ToString(k) ELSE ToString(k)

\* f"{x:.1%}": the percentage rounded half-even to one decimal
FormatPct1(x) ==
    LET tenths == RoundHalfEven(1000 * Abs(x.n), x.d)
    IN  (IF x.n < 0 THEN "-" ELSE "")
        \o ToString(tenths \div 10) \o "." \o ToString(tenths % 10) \o "%"

\* f"{x:.2f}": rounded half-even to two decimals
Format2f(x) ==
    LET hundredths == RoundHalfEven(100 * Abs(x.n), x.d)
    IN  (IF x.n < 0 THEN "-" ELSE "")
        \o ToString(hundredths \div 100) \o "." \o TwoDigits(hundredths % 100)

\* the division done without the zero guard: x / 0.0 is inf for x # 0 (kept
\* as a number above every threshold), NaN for 0 / 0
MeanChangePct_NoGuard(new_mean, baseline_mean) ==
    IF baseline_mean.n # 0 THEN PyAbs(PyDiv(PySub(new_mean, baseline_mean), baseline_mean))
    ELSE IF new_mean.n # 0 THEN Num(1000000) ELSE NaN

\* lines 96-100
MeanChangePct(new_mean, baseline_mean) ==
    IF baseline_mean.n # 0 THEN PyAbs(PyDiv(PySub(new_mean, baseline_mean), baseline_mean))
    ELSE Num(0)

DriftFlag_GE(change, threshold) == PyGT(change, threshold) \/ change = threshold

\* lines 103, 153: the change compared with the threshold
DriftFlag(change, threshold) == PyGT(change, threshold)

\* lines 105-109; a text is the sequence of its pieces, "" the empty sequence
NumericalWarning(drift_detected, feature, new_mean, baseline_mean, mean_change_pct) ==
    IF drift_detected
    THEN LET direction == IF PyGT(new_mean, baseline_mean) THEN "increased" ELSE "decreased"
         IN  <<"DRIFT ALERT: ", feature, " mean has ", direction, " by ",
               FormatPct1(mean_change_pct), " (from ", Format2f(baseline_mean),
               " to ", Format2f(new_mean), ")">>
    ELSE <<>>

\* line 73: threshold: float = 0.10
NumericalThreshold == Rat(10, 100)

\* lines 72-119
_check_numerical_drift(new_df, base_df, feature, threshold) ==
    LET new_values == CleanNumeric(new_df, feature)
        baseline_values == CleanNumeric(base_df, feature)
    IN  IF Len(new_values) = 0 \/ Len(baseline_values) = 0
        THEN [drift_detected |-> FALSE,
              warning |-> <<"Insufficient data for ", feature, " drift analysis">>,
              new_mean |-> None,
              baseline_mean |-> None,
              mean_change_pct |-> None,
              new_std |-> None,
              baseline_std |-> None]
        ELSE LET new_mean == Mean(new_values)
                 baseline_mean == Mean(baseline_values)
                 new_std == Std(new_values)
                 baseline_std == Std(baseline_values)
                 mean_change_pct == MeanChangePct(new_mean, baseline_mean)
                 drift_detected == DriftFlag(mean_change_pct, threshold)
             IN  [drift_detected |-> drift_detected,
                  warning |-> NumericalWarning(drift_detected, feature, new_mean,
                                               baseline_mean, mean_change_pct),
                  new_mean |-> new_mean,
                  baseline_mean |-> baseline_mean,
                  mean_change_pct |-> mean_change_pct,
                  new_std |-> new_std,
                  baseline_std |-> baseline_std]

\* line 123: threshold: float = 0.20
CategoricalThreshold == Rat(20, 100)

\* Series.value_counts(normalize=True): the share of each value among the
\* cells that are not missing
ValueCounts(col) ==
    LET present == DropNa(col)
        values == {present[i] : i \in 1..Len(present)}
    IN  [v \in values |->
            Rat(Cardinality({i \in 1..Len(present) : present[i] = v}), Len(present))]

\* counts.get(category, 0)
Prop(counts, category) == IF category \in DOMAIN counts THEN counts[category] ELSE Num(0)

\* line 130: the categories of either side
AllCategories(new_df, base_df, feature) ==
    DOMAIN ValueCounts(Column(new_df, feature))
        \cup DOMAIN ValueCounts(Column(base_df, feature))

RECURSIVE CategoryLoop_GE(_, _, _, _, _, _)
\* a category collected as soon as its shift reaches the threshold
CategoryLoop_GE(order, i, new_counts, baseline_counts, threshold, acc) ==
    IF i > Len(order) THEN acc
    ELSE LET category == order[i]
             new_prop == Prop(new_counts, category)
             baseline_prop == Prop(baseline_counts, category)
             prop_change == PyAbs(PySub(new_prop, baseline_prop))
             max_shift == IF PyGT(prop_change, acc.max_shift)
                          THEN prop_change ELSE acc.max_shift
             shifted == IF PyGT(prop_change, threshold) \/ prop_change = threshold
                        THEN Append(acc.shifted_categories,
                                    [category |-> category,
                                     new_proportion |-> new_prop,
                                     baseline_proportion |-> baseline_prop,
                                     change |-> prop_change])
                        ELSE acc.shifted_categories
         IN  CategoryLoop_GE(order, i + 1, new_counts, baseline_counts, threshold,
                             [max_shift |-> max_shift, shifted_categories |-> shifted])

RECURSIVE CategoryLoop(_, _, _, _, _, _)
\* lines 135-151: the loop over all_categories in the order the set yields them;
\* acc is [max_shift, shifted_categories]
CategoryLoop(order, i, new_counts, baseline_counts, threshold, acc) ==
    IF i > Len(order) THEN acc
    ELSE LET category == order[i]
             new_prop == Prop(new_counts, category)
             baseline_prop == Prop(baseline_counts, category)
             prop_change == PyAbs(PySub(new_prop, baseline_prop))
             max_shift == IF PyGT(prop_change, acc.max_shift)
                          THEN prop_change ELSE acc.max_shift
             shifted == IF PyGT(prop_change, threshold)
                        THEN Append(acc.shifted_categories,
                                    [category |-> category,
                                     new_proportion |-> new_prop,
                                     baseline_proportion |-> baseline_prop,
                                     change |-> prop_change])
                        ELSE acc.shifted_categories
         IN  CategoryLoop(order, i + 1, new_counts, baseline_counts, threshold,
                          [max_shift |-> max_shift, shifted_categories |-> shifted])

\* the warning text built whether or not the flag is set
CategoricalWarning_Always(drift_detected, feature, max_shift, shifted_categories) ==
    <<"DRIFT ALERT: ", feature, " distribution has shifted significantly. ",
      "Max category shift: ", FormatPct1(max_shift), ". ",
      "Affected categories: ",
      [i \in 1..Len(shifted_categories) |-> shifted_categories[i].category]>>

\* lines 155-159
CategoricalWarning(drift_detected, feature, max_shift, shifted_categories) ==
    IF drift_detected
    THEN <<"DRIFT ALERT: ", feature, " distribution has shifted significantly. ",
           "Max category shift: ", FormatPct1(max_shift), ". ",
           "Affected categories: ",
           [i \in 1..Len(shifted_categories) |-> shifted_categories[i].category]>>
    ELSE <<>>

\* the categorical check with the guard of the numerical one: a side without
\* values gives an insufficient-data finding
CategoricalDrift_Guarded(new_df, base_df, feature, threshold, order) ==
    LET new_counts == ValueCounts(Column(new_df, feature))
        baseline_counts == ValueCounts(Column(base_df, feature))
        out == CategoryLoop(order, 1, new_counts, baseline_counts, threshold,
                            [max_shift |-> Num(0), shifted_categories |-> <<>>])
        drift_detected == DriftFlag(out.max_shift, threshold)
    IN  IF DOMAIN new_counts = {} \/ DOMAIN baseline_counts = {}
        THEN [drift_detected |-> FALSE,
              warning |-> <<"Insufficient data for ", feature, " drift analysis">>,
              max_shift |-> Num(0),
              shifted_categories |-> <<>>,
              new_distribution |-> new_counts,
              baseline_distribution |-> baseline_counts]
        ELSE [drift_detected |-> drift_detected,
              warning |-> CategoricalWarning(drift_detected, feature, out.max_shift,
                                             out.shifted_categories),
              max_shift |-> out.max_shift,
              shifted_categories |-> out.shifted_categories,
              new_distribution |-> new_counts,
              baseline_distribution |-> baseline_counts]

\* lines 122-168; order is the iteration order of the set all_categories
_check_categorical_drift(new_df, base_df, feature, threshold, order) ==
    LET new_counts == ValueCounts(Column(new_df, feature))
        baseline_counts == ValueCounts(Column(base_df, feature))
        out == CategoryLoop(order, 1, new_counts, baseline_counts, threshold,
                            [max_shift |-> Num(0), shifted_categories |-> <<>>])
        drift_detected == DriftFlag(out.max_shift, threshold)
    IN  [drift_detected |-> drift_detected,
         warning |-> CategoricalWarning(drift_detected, feature, out.max_shift,
                                        out.shifted_categories),
         max_shift |-> out.max_shift,
         shifted_categories |-> out.shifted_categories,
         new_distribution |-> new_counts,
         baseline_distribution |-> baseline_counts]

\* lines 41, 51: feature in new_data_df.columns and feature in baseline_df.columns
InBoth(new_df, base_df, feature) == feature \in new_df.columns /\ feature \in base_df.columns

\* the warning added whenever the finding carries one
Aggregate_OnWarning(results, drift_info) ==
    IF drift_info.warning # <<>>
    THEN [results EXCEPT !.drift_detected = TRUE,
                         !.drift_warnings = Append(@, drift_info.warning)]
    ELSE results

\* lines 45-47, 55-57
Aggregate(results, drift_info) ==
    IF drift_info.drift_detected
    THEN [results EXCEPT !.drift_detected = TRUE,
                         !.drift_warnings = Append(@, drift_info.warning)]
    ELSE results

RECURSIVE NumericalLoop(_, _, _, _)
\* lines 40-47
NumericalLoop(new_df, base_df, i, results) ==
    IF i > Len(numerical_features) THEN results
    ELSE LET feature == numerical_features[i]
         IN  IF InBoth(new_df, base_df, feature)
             THEN LET drift_info == _check_numerical_drift(new_df, base_df, feature,
                                                           NumericalThreshold)
                      recorded == [results EXCEPT !.numerical_drift =
                                      [f \in DOMAIN @ \cup {feature} |->
                                          IF f = feature THEN drift_info ELSE @[f]]]
                  IN  NumericalLoop(new_df, base_df, i + 1, Aggregate(recorded, drift_info))
             ELSE NumericalLoop(new_df, base_df, i + 1, results)

RECURSIVE CategoricalLoop(_, _, _, _, _)
\* lines 50-57
CategoricalLoop(new_df, base_df, orders, i, results) ==
    IF i > Len(categorical_features) THEN results
    ELSE LET feature == categorical_features[i]
         IN  IF InBoth(new_df, base_df, feature)
             THEN LET drift_info == _check_categorical_drift(new_df, base_df, feature,
                                        CategoricalThreshold, orders[feature])
                      recorded == [results EXCEPT !.categorical_drift =
                                      [f \in DOMAIN @ \cup {feature} |->
                                          IF f = feature THEN drift_info ELSE @[f]]]
                  IN  CategoricalLoop(new_df, base_df, orders, i + 1,
                                      Aggregate(recorded, drift_info))
             ELSE CategoricalLoop(new_df, base_df, orders, i + 1, results)

\* the elements of a list
Range(list) == {list[i] : i \in 1..Len(list)}

\* lines 283-343: "" without a scored feature, else the picture of the scores
_create_drift_summary_heatmap(new_df, base_df, orders) ==
    LET numerical ==
            SelectSeq(numerical_features,
                      LAMBDA f : /\ InBoth(new_df, base_df, f)
                                 /\ _check_numerical_drift(new_df, base_df, f,
                                        NumericalThreshold).mean_change_pct # None)
        categorical == SelectSeq(categorical_features, LAMBDA f : InBoth(new_df, base_df, f))
        features == numerical \o categorical
    IN  IF Len(features) = 0 THEN <<>>
        ELSE [i \in 1..Len(features) |->
                [feature |-> features[i],
                 score |-> IF i <= Len(numerical)
                           THEN _check_numerical_drift(new_df, base_df, features[i],
                                    NumericalThreshold).mean_change_pct
                           ELSE _check_categorical_drift(new_df, base_df, features[i],
                                    CategoricalThreshold, orders[features[i]]).max_shift]]

\* lines 171-280: the charts drawn, by key; a chart is kept as what it shows
_generate_drift_visualizations(new_df, base_df, orders) ==
    LET histograms ==
            {f \in Range(numerical_features) :
                /\ InBoth(new_df, base_df, f)
                /\ Len(CleanNumeric(new_df, f)) > 0
                /\ Len(CleanNumeric(base_df, f)) > 0}
        barplots == {f \in Range(categorical_features) : InBoth(new_df, base_df, f)}
        drift_summary == _create_drift_summary_heatmap(new_df, base_df, orders)
        keys == {f \o "_histogram" : f \in histograms}
                    \cup {f \o "_barplot" : f \in barplots}
                    \cup (IF drift_summary # <<>> THEN {"drift_summary_heatmap"} ELSE {})
    IN  [k \in keys |->
            IF k = "drift_summary_heatmap" THEN drift_summary ELSE "chart"]

\* the coverage loop of the categorical features leaving out its else branch
SummaryStats_NumericalOnly(new_df, base_df) ==
    [data_size_comparison |->
        [new_data_rows |-> Len(new_df.rows),
         baseline_rows |-> Len(base_df.rows),
         size_ratio |-> IF Len(base_df.rows) > 0
                        THEN Rat(Len(new_df.rows), Len(base_df.rows)) ELSE Num(0)],
     feature_coverage |->
        [numerical_features_analyzed |->
            SelectSeq(numerical_features, LAMBDA f : InBoth(new_df, base_df, f)),
         categorical_features_analyzed |->
            SelectSeq(categorical_features, LAMBDA f : InBoth(new_df, base_df, f)),
         missing_features |->
            SelectSeq(numerical_features, LAMBDA f : ~InBoth(new_df, base_df, f))]]

\* a numerical feature without a usable value on one side counted as missing
SummaryStats_UsableOnly(new_df, base_df) ==
    LET usable(f) == /\ InBoth(new_df, base_df, f)
                     /\ Len(CleanNumeric(new_df, f)) > 0
                     /\ Len(CleanNumeric(base_df, f)) > 0
    IN  [data_size_comparison |->
            [new_data_rows |-> Len(new_df.rows),
             baseline_rows |-> Len(base_df.rows),
             size_ratio |-> IF Len(base_df.rows) > 0
                            THEN Rat(Len(new_df.rows), Len(base_df.rows)) ELSE Num(0)],
         feature_coverage |->
            [numerical_features_analyzed |->
                SelectSeq(numerical_features, LAMBDA f : usable(f)),
             categorical_features_analyzed |->
                SelectSeq(categorical_features, LAMBDA f : InBoth(new_df, base_df, f)),
             missing_features |->
                SelectSeq(numerical_features, LAMBDA f : ~usable(f))
                \o SelectSeq(categorical_features, LAMBDA f : ~InBoth(new_df, base_df, f))]]

\* lines 346-377
_generate_summary_stats(new_df, base_df) ==
    [data_size_comparison |->
        [new_data_rows |-> Len(new_df.rows),
         baseline_rows |-> Len(base_df.rows),
         size_ratio |-> IF Len(base_df.rows) > 0
                        THEN Rat(Len(new_df.rows), Len(base_df.rows)) ELSE Num(0)],
     feature_coverage |->
        [numerical_features_analyzed |->
            SelectSeq(numerical_features, LAMBDA f : InBoth(new_df, base_df, f)),
         categorical_features_analyzed |->
            SelectSeq(categorical_features, LAMBDA f : InBoth(new_df, base_df, f)),
         missing_features |->
            SelectSeq(numerical_features, LAMBDA f : ~InBoth(new_df, base_df, f))
            \o SelectSeq(categorical_features, LAMBDA f : ~InBoth(new_df, base_df, f))]]

\* the categorical features checked before the numerical ones
check_for_drift_CategoricalFirst(new_df, base_df, orders) ==
    LET r0 == [drift_detected |-> FALSE,
               drift_warnings |-> <<>>,
               numerical_drift |-> <<>>,
               categorical_drift |-> <<>>,
               visualizations |-> <<>>,
               summary_stats |-> <<>>]
        r1 == CategoricalLoop(new_df, base_df, orders, 1, r0)
        r2 == NumericalLoop(new_df, base_df, 1, r1)
    IN  [r2 EXCEPT !.visualizations = _generate_drift_visualizations(new_df, base_df, orders),
                   !.summary_stats = _generate_summary_stats(new_df, base_df)]

\* lines 14-69; orders[f] is the iteration order of the category set of f
check_for_drift(new_df, base_df, orders) ==
    LET r0 == [drift_detected |-> FALSE,
               drift_warnings |-> <<>>,
               numerical_drift |-> <<>>,
               categorical_drift |-> <<>>,
               visualizations |-> <<>>,
               summary_stats |-> <<>>]
        r1 == NumericalLoop(new_df, base_df, 1, r0)
        r2 == CategoricalLoop(new_df, base_df, orders, 1, r1)
    IN  [r2 EXCEPT !.visualizations = _generate_drift_visualizations(new_df, base_df, orders),
                   !.summary_stats = _generate_summary_stats(new_df, base_df)]

----------------------------------------------------------------------------
(* SpecRec: the two pure functions on one customer.  Init draws the        *)
(* arguments, Recommend applies lines 36-43 of the loop body to them.      *)

Contracts == {Str("Month-to-month"), Str("One year"), Str("Two year"), Str("Unknown")}

InternetServices == {Str("DSL"), Str("Fiber optic")}

PaymentMethods == {Str("Electronic check"), Str("Mailed check")}

YesNo == {Str("Yes"), Str("No")}

Charges == {Num(50), Num(80), Num(81), NaN}

Tenures == {Num(11), Num(12), Num(24), NaN}

Probabilities ==
    {Rat(k, 100) : k \in {40, 41, 60, 61, 70, 71, 75, 80, 81}} \cup {NaN}

ArgSets ==
    [contract : Contracts, internet_service : InternetServices,
     monthly_charges : Charges, tenure : Tenures, payment_method : PaymentMethods,
     tech_support : YesNo, online_security : YesNo, online_backup : YesNo,
     device_protection : YesNo, streaming_tv : YesNo, streaming_movies : YesNo,
     churn_prob : Probabilities]

driftVars == <<new_data_df, baseline_df, finding, drift_results>>

reportVars == <<baseline_file, html_content, report_file, response, exc>>

predictVars ==
    <<contents, heap, df_upload, original_data, df_processed, k_value,
      xgb_threshold, proba, preds, prediction>>

serverVars == <<requests, running, log>>

\* no prediction request and no server in the specification
NoPredict ==
    /\ contents = None
    /\ heap = None
    /\ df_upload = None
    /\ original_data = None
    /\ df_processed = None
    /\ k_value = None
    /\ xgb_threshold = None
    /\ proba = None
    /\ preds = None
    /\ prediction = None
    /\ requests = None
    /\ running = None
    /\ log = None

NoReport ==
    /\ baseline_file = None
    /\ html_content = None
    /\ report_file = None
    /\ response = None
    /\ exc = None

NoDrift ==
    /\ new_data_df = None
    /\ baseline_df = None
    /\ finding = None
    /\ drift_results = None

Idle ==
    /\ churners_data = <<>>
    /\ df_churners = None
    /\ recommendations = <<>>
    /\ pc = "idle"

InitRec ==
    /\ args \in ArgSets
    /\ rec_result = None
    /\ Idle
    /\ NoReport
    /\ NoPredict
    /\ NoDrift

Recommend ==
    /\ rec_result = None
    /\ rec_result' =
         [t |-> "done",
          text |-> _generate_personalized_recommendation(
                       args.contract, args.internet_service, args.monthly_charges,
                       args.tenure, args.payment_method, args.tech_support,
                       args.online_security, args.online_backup,
                       args.device_protection, args.streaming_tv,
                       args.streaming_movies, args.churn_prob),
          urgency |-> _calculate_urgency_level(args.churn_prob, args.tenure)]
    /\ UNCHANGED <<predictVars, serverVars, reportVars, args, churners_data, df_churners, recommendations, pc, driftVars>>

NextRec == Recommend

SpecRec == InitRec /\ [][NextRec]_vars

Done == rec_result.t = "done"

segs == Segments(rec_result.text)

----------------------------------------------------------------------------
(* Claims about the recommendation rules, checked under SpecRec *)

\* the probability p compared with the decimal k/100
Above(p, k) == p.n * 100 > k * p.d

\* C1: the urgency tier is CRITICAL above 0.8, else HIGH above 0.6, else
\* MEDIUM above 0.4, else LOW; a probability equal to a cutoff falls in the
\* lower tier (0.81 CRITICAL, 0.80 HIGH, 0.60 MEDIUM, 0.40 LOW).
C1_UrgencyTiers ==
    (Done /\ IsNum(args.churn_prob)) =>
        LET p == args.churn_prob
            u == rec_result.urgency
        IN  /\ u \in {"CRITICAL", "HIGH", "MEDIUM", "LOW"}
            /\ (u = "CRITICAL") <=> Above(p, 80)
            /\ (u = "HIGH") <=> (Above(p, 60) /\ ~Above(p, 80))
            /\ (u = "MEDIUM") <=> (Above(p, 40) /\ ~Above(p, 60))
            /\ (u = "LOW") <=> ~Above(p, 40)
            /\ (p = Rat(81, 100)) => (u = "CRITICAL")
            /\ (p = Rat(80, 100)) => (u = "HIGH")
            /\ (p = Rat(60, 100)) => (u = "MEDIUM")
            /\ (p = Rat(40, 100)) => (u = "LOW")

C1_Witness ==
    /\ Done
    /\ args.churn_prob = Rat(80, 100)
    /\ rec_result.urgency = "HIGH"

\* C2: the recommendation string never has more than 4 segments separated
\* by " | ".
C2_AtMostFourSegments == Done => Len(segs) <= 4

\* the strings the rules contribute for the customer in args, before truncation
Applicable ==
    LET a == args
    IN  (IF a.contract = Str("Month-to-month")
         THEN (IF IsNum(a.churn_prob) /\ Above(a.churn_prob, 70)
               THEN {URGENT20} ELSE {OFFER15})
         ELSE IF a.contract = Str("One year") THEN {OFFER10} ELSE {})
        \cup (IF IsNum(a.monthly_charges) /\ a.monthly_charges.n > 80 * a.monthly_charges.d
              THEN {PREMIUM}
              ELSE IF IsNum(a.monthly_charges)
                      /\ a.monthly_charges.n > 50 * a.monthly_charges.d
                   THEN {MIDTIER} ELSE {LOYALTY})
        \cup (IF IsNum(a.tenure) /\ a.tenure.n < 12 * a.tenure.d THEN {MANAGER}
              ELSE IF IsNum(a.tenure) /\ a.tenure.n < 24 * a.tenure.d
                   THEN {REWARDS} ELSE {LONGTERM})
        \cup (IF a.tech_support = Str("No") THEN {TECHSUPPORT} ELSE {})
        \cup (IF a.online_security = Str("No") THEN {SECURITY} ELSE {})
        \cup (IF a.online_backup = Str("No") THEN {BACKUP} ELSE {})
        \cup (IF a.device_protection = Str("No") THEN {DEVICE} ELSE {})
        \cup (IF a.streaming_tv = Str("No") /\ a.streaming_movies = Str("No")
              THEN {STREAMING} ELSE {})
        \cup (IF a.payment_method = Str("Electronic check") THEN {AUTOPAY} ELSE {})
        \cup (IF a.internet_service = Str("DSL") THEN {FIBER} ELSE {})

C2_Witness ==
    /\ Done
    /\ Cardinality(Applicable) > 4
    /\ Len(segs) = 4

\* the priority of the rule a string belongs to
Priority(s) ==
    IF s \in {URGENT20, OFFER15, OFFER10} THEN 1
    ELSE IF s \in {PREMIUM, MIDTIER, LOYALTY} THEN 2
    ELSE IF s \in {MANAGER, REWARDS, LONGTERM} THEN 3
    ELSE IF s = TECHSUPPORT THEN 4
    ELSE IF s = SECURITY THEN 5
    ELSE IF s = BACKUP THEN 6
    ELSE IF s = DEVICE THEN 7
    ELSE IF s = STREAMING THEN 8
    ELSE IF s = AUTOPAY THEN 9
    ELSE 10

\* C3: the rules apply in the priority contract, charge tier, tenure band,
\* tech support, online security, online backup, device protection, joint
\* streaming, payment method, internet service; each contributes zero or one
\* string and the output is the first 4 contributed strings in that order.
C3_PriorityOrderTruncated ==
    Done =>
        LET app == Applicable
            out == segs
            n == Cardinality(app)
        IN  /\ \A r \in 1..10 : Cardinality({s \in app : Priority(s) = r}) <= 1
            /\ Len(out) = IF n < 4 THEN n ELSE 4
            /\ \A i \in 1..Len(out) :
                  /\ out[i] \in app
                  /\ Cardinality({s \in app : Priority(s) < Priority(out[i])}) = i - 1

C3_Witness ==
    /\ Done
    /\ args.contract = Str("One year")
    /\ args.tech_support = Str("Yes")
    /\ args.online_security = Str("No")
    /\ {STREAMING, AUTOPAY, FIBER} \subseteq Applicable
    /\ segs[4] = SECURITY
    /\ \A i \in 1..Len(segs) : segs[i] \notin {STREAMING, AUTOPAY, FIBER}

\* C4: the contract rule gives the urgent 20% offer for Month-to-month with
\* probability > 0.7, the 15% offer for Month-to-month with probability <= 0.7
\* (0.7 included), the 10% extension offer for One year, nothing for Two year.
C4_ContractRule ==
    (Done /\ IsNum(args.churn_prob)) =>
        LET contractStrings == {URGENT20, OFFER15, OFFER10}
            contributed == {segs[i] : i \in 1..Len(segs)} \cap contractStrings
        IN  /\ (args.contract = Str("Month-to-month") /\ Above(args.churn_prob, 70))
                  => (contributed = {URGENT20} /\ segs[1] = URGENT20)
            /\ (args.contract = Str("Month-to-month") /\ ~Above(args.churn_prob, 70))
                  => (contributed = {OFFER15} /\ segs[1] = OFFER15)
            /\ (args.contract = Str("One year"))
                  => (contributed = {OFFER10} /\ segs[1] = OFFER10)
            /\ (args.contract = Str("Two year")) => (contributed = {})

C4_Witness ==
    /\ Done
    /\ args.contract = Str("Month-to-month")
    /\ args.churn_prob = Rat(70, 100)
    /\ segs[1] = OFFER15

\* C5: a Month-to-month customer with churn probability 0.75 and TechSupport
\* "No" gets the urgent 20% offer as first segment and the complimentary
\* tech-support offer among the at most 4 segments, whatever the other fields.
C5_UrgentAndTechSupport ==
    (/\ Done
     /\ args.contract = Str("Month-to-month")
     /\ args.churn_prob = Rat(75, 100)
     /\ args.tech_support = Str("No")) =>
        /\ segs[1] = URGENT20
        /\ \E i \in 1..Len(segs) : segs[i] = TECHSUPPORT
        /\ Len(segs) <= 4

C5_Witness ==
    /\ Done
    /\ args.contract = Str("Month-to-month")
    /\ args.churn_prob = Rat(75, 100)
    /\ args.tech_support = Str("No")
    /\ args.online_security = Str("No")
    /\ args.online_backup = Str("No")
    /\ segs[4] = TECHSUPPORT

----------------------------------------------------------------------------
(* Spec: a report request (main.py, generate_recommendations_report_endpoint) *)

Keys ==
    {"customerID", "churn_probability", "Contract", "InternetService",
     "MonthlyCharges", "tenure", "PaymentMethod", "TechSupport", "OnlineSecurity",
     "OnlineBackup", "DeviceProtection", "StreamingTV", "StreamingMovies"}

\* the complete customers a request row is taken from
Customers ==
    {[customerID |-> Str("0001-A"), churn_probability |-> Rat(81, 100),
      Contract |-> Str("Month-to-month"), InternetService |-> Str("DSL"),
      MonthlyCharges |-> Rat(171, 2), tenure |-> Num(5),
      PaymentMethod |-> Str("Electronic check"), TechSupport |-> Str("No"),
      OnlineSecurity |-> Str("No"), OnlineBackup |-> Str("No"),
      DeviceProtection |-> Str("No"), StreamingTV |-> Str("No"),
      StreamingMovies |-> Str("No")],
     [customerID |-> Str("0002-B"), churn_probability |-> Rat(45678, 100000),
      Contract |-> Str("One year"), InternetService |-> Str("Fiber optic"),
      MonthlyCharges |-> Rat(60125, 1000), tenure |-> Num(18),
      PaymentMethod |-> Str("Mailed check"), TechSupport |-> Str("Yes"),
      OnlineSecurity |-> Str("No"), OnlineBackup |-> Str("Yes"),
      DeviceProtection |-> Str("Yes"), StreamingTV |-> Str("Yes"),
      StreamingMovies |-> Str("No")],
     [customerID |-> Str("0003-C"), churn_probability |-> Rat(30, 100),
      Contract |-> Str("Two year"), InternetService |-> Str("No"),
      MonthlyCharges |-> Num(20), tenure |-> Num(60),
      PaymentMethod |-> Str("Credit card (automatic)"), TechSupport |-> Str("Yes"),
      OnlineSecurity |-> Str("Yes"), OnlineBackup |-> Str("Yes"),
      DeviceProtection |-> Str("Yes"), StreamingTV |-> Str("Yes"),
      StreamingMovies |-> Str("Yes")]}

\* a request row: a customer without at most MaxMissing of its keys
RequestRows ==
    {[k \in Keys \ missing |-> c[k]] :
        c \in Customers,
        missing \in {m \in SUBSET Keys : Cardinality(m) <= MaxMissing}}

RECURSIVE ListsUpTo(_, _)
\* the lists of at most n elements of S
ListsUpTo(S, n) ==
    IF n = 0 THEN {<<>>}
    ELSE LET shorter == ListsUpTo(S, n - 1)
         IN  shorter \cup {Append(l, x) : l \in {m \in shorter : Len(m) = n - 1}, x \in S}

Init ==
    /\ args = None
    /\ rec_result = None
    /\ Idle
    /\ NoReport
    /\ NoPredict
    /\ NoDrift

\* line 135: the request body arrives and becomes a DataFrame
Request ==
    /\ pc = "idle"
    /\ \E data \in ListsUpTo(RequestRows, MaxRows) :
          /\ churners_data' = data
          /\ df_churners' = DataFrame(data)
    /\ recommendations' = <<>>
    /\ pc' = "generate"
    /\ UNCHANGED <<predictVars, serverVars, reportVars, args, rec_result, driftVars>>

\* line 147
GenerateRecommendations ==
    /\ pc = "generate"
    /\ recommendations' = generate_recommendations_report(df_churners)
    /\ pc' = "done"
    /\ UNCHANGED <<predictVars, serverVars, reportVars, args, rec_result, churners_data, df_churners, driftVars>>

\* the request returns; its locals are gone
Return ==
    /\ pc = "done"
    /\ churners_data' = <<>>
    /\ df_churners' = None
    /\ recommendations' = <<>>
    /\ pc' = "idle"
    /\ UNCHANGED <<predictVars, serverVars, reportVars, args, rec_result, driftVars>>

Next == Request \/ GenerateRecommendations \/ Return

Spec == Init /\ [][Next]_vars

----------------------------------------------------------------------------
(* Claims about generate_recommendations_report, checked under Spec *)

\* C6: one Recommendation per input row, in input row order: the output is
\* as long as the input and the i-th output carries the i-th row's customer id.
C6_OnePerRowInOrder ==
    (pc = "done") =>
        /\ Len(recommendations) = Len(churners_data)
        /\ \A i \in 1..Len(churners_data) :
              "customerID" \in DOMAIN churners_data[i]
                 => recommendations[i].customer_id = churners_data[i]["customerID"]

C6_Witness ==
    /\ pc = "done"
    /\ Len(churners_data) = 2
    /\ "customerID" \in DOMAIN churners_data[1]
    /\ "customerID" \in DOMAIN churners_data[2]
    /\ churners_data[1]["customerID"] # churners_data[2]["customerID"]
    /\ recommendations[2].customer_id = churners_data[2]["customerID"]

\* the sentinel default of a key
Sentinel(k) ==
    IF k \in {"churn_probability", "MonthlyCharges", "tenure"} THEN Num(0)
    ELSE Str("Unknown")

\* the row with the sentinel default in place of every key it lacks
WithSentinels(row) == [k \in Keys |-> IF k \in DOMAIN row THEN row[k] ELSE Sentinel(k)]

\* C7: a field missing from a customer is replaced by its sentinel default
\* ('Unknown' or 0), and every customer yields exactly one Recommendation.
C7_MissingFieldsDefaulted ==
    (pc = "done") =>
        /\ Len(recommendations) = Len(churners_data)
        /\ \A i \in 1..Len(churners_data) :
              recommendations[i] = RowRecommendation(WithSentinels(churners_data[i]))

----------------------------------------------------------------------------
(* SpecNum: _check_numerical_drift on one feature.  Init draws the two     *)
(* columns, CheckNumerical applies the function to them.                   *)

\* the cells of a numerical column: numbers, a numeric string, a blank
NumCells ==
    {Num(0), Num(10), Num(11), Num(65), Num(75), Str("9"), Str(" ")}

\* the frame with the single column feature holding cells
OneColumn(feature, cells) ==
    [columns |-> {feature},
     rows |-> [i \in 1..Len(cells) |-> [c \in {feature} |-> cells[i]]]]

InitNum ==
    /\ args = None
    /\ rec_result = None
    /\ Idle
    /\ NoReport
    /\ NoPredict
    /\ \E new_cells \in ListsUpTo(NumCells, MaxCells),
          base_cells \in ListsUpTo(NumCells, MaxCells) :
          /\ new_data_df = OneColumn("MonthlyCharges", new_cells)
          /\ baseline_df = OneColumn("MonthlyCharges", base_cells)
    /\ finding = None
    /\ drift_results = None

CheckNumerical ==
    /\ finding = None
    /\ finding' = _check_numerical_drift(new_data_df, baseline_df, "MonthlyCharges",
                                         NumericalThreshold)
    /\ UNCHANGED <<predictVars, serverVars, reportVars, args, rec_result, churners_data, df_churners, recommendations, pc,
                   new_data_df, baseline_df, drift_results>>

NextNum == CheckNumerical

SpecNum == InitNum /\ [][NextNum]_vars

----------------------------------------------------------------------------
(* Claims about _check_numerical_drift, checked under SpecNum *)

RECURSIVE Total(_)
\* the sum of the usable cells of a column, as an integer
Total(cells) ==
    IF Len(cells) = 0 THEN 0
    ELSE (IF ToNumeric(Head(cells)).t = "num" THEN ToNumeric(Head(cells)).n ELSE 0)
         + Total(Tail(cells))

\* the number of usable cells of a column
Usable(cells) == Cardinality({i \in 1..Len(cells) : ToNumeric(cells[i]).t = "num"})

newTotal == Total(Column(new_data_df, "MonthlyCharges"))

newUsable == Usable(Column(new_data_df, "MonthlyCharges"))

baseTotal == Total(Column(baseline_df, "MonthlyCharges"))

baseUsable == Usable(Column(baseline_df, "MonthlyCharges"))

Contains(text, piece) == \E i \in 1..Len(text) : text[i] = piece

\* C8: with usable values on both sides and a baseline mean that is not 0,
\* drift is flagged exactly when |new_mean - baseline_mean| / |baseline_mean|
\* is strictly greater than 0.10; a flagged warning says "increased" iff
\* new_mean > baseline_mean and "decreased" otherwise; batch mean 75 against
\* baseline mean 65 is flagged with "increased" and "15.4%".
C8_NumericalDriftRule ==
    (finding # None /\ newUsable > 0 /\ baseUsable > 0 /\ baseTotal # 0) =>
        LET diff == Abs(newTotal * baseUsable - baseTotal * newUsable)
            base == Abs(baseTotal * newUsable)
            up == newTotal * baseUsable > baseTotal * newUsable
        IN  /\ finding.drift_detected <=> (10 * diff > base)
            /\ finding.drift_detected =>
                  /\ Contains(finding.warning, "increased") <=> up
                  /\ Contains(finding.warning, "decreased") <=> ~up
            /\ (newTotal = 75 * newUsable /\ baseTotal = 65 * baseUsable) =>
                  /\ finding.drift_detected
                  /\ Contains(finding.warning, "increased")
                  /\ Contains(finding.warning, "15.4%")

C8_Witness ==
    /\ finding # None
    /\ newUsable > 0
    /\ baseUsable > 0
    /\ newTotal * baseUsable * 10 = baseTotal * newUsable * 11
    /\ baseTotal # 0
    /\ ~finding.drift_detected

\* C9: when the baseline mean is 0 the drift flag is False whatever the new
\* batch mean is, and the percent change is reported as 0.
C9_ZeroBaselineMean ==
    (finding # None /\ newUsable > 0 /\ baseUsable > 0 /\ baseTotal = 0) =>
        /\ finding.drift_detected = FALSE
        /\ finding.mean_change_pct = Num(0)

C9_Witness ==
    /\ finding # None
    /\ baseUsable > 0
    /\ baseTotal = 0
    /\ newUsable > 0
    /\ newTotal = 75 * newUsable
    /\ finding.drift_detected = FALSE

----------------------------------------------------------------------------
(* SpecDrift: check_for_drift on two frames.  Init draws the frames,       *)
(* CheckForDrift applies the function.                                     *)

Features == Range(numerical_features) \cup Range(categorical_features)

\* a column of the data that is not in either feature list
Unmonitored == {"customerID"}

\* the records the rows of a frame are taken from
DriftRows ==
    {[tenure |-> Num(10), MonthlyCharges |-> Num(65), TotalCharges |-> Str(" "),
      Contract |-> Str("Month-to-month"), InternetService |-> Str("DSL"),
      PaymentMethod |-> Str("Electronic check"), gender |-> Str("Female"),
      customerID |-> Str("0001-A")],
     [tenure |-> Num(12), MonthlyCharges |-> Num(75), TotalCharges |-> Num(0),
      Contract |-> Str("One year"), InternetService |-> Str("DSL"),
      PaymentMethod |-> Str("Mailed check"), gender |-> NaN,
      customerID |-> Str("0002-B")]}

\* the frames of at most MaxDriftRows rows lacking at most MaxMissingCols of
\* the monitored columns
Frames ==
    {[columns |-> (Features \ missing) \cup Unmonitored,
      rows |-> [i \in 1..Len(rows) |->
                  [c \in (Features \ missing) \cup Unmonitored |-> rows[i][c]]]] :
        rows \in ListsUpTo(DriftRows, MaxDriftRows),
        missing \in {m \in SUBSET Features : Cardinality(m) <= MaxMissingCols}}

RECURSIVE Perms(_)
\* the orders in which a set can be enumerated
Perms(S) ==
    IF S = {} THEN {<<>>}
    ELSE UNION {{<<x>> \o p : p \in Perms(S \ {x})} : x \in S}

\* for every categorical feature, an iteration order of its category set
Orders(new_df, base_df) ==
    LET Cats(f) == IF InBoth(new_df, base_df, f)
                   THEN AllCategories(new_df, base_df, f) ELSE {}
    IN  {[Contract |-> c, InternetService |-> i, PaymentMethod |-> p, gender |-> g] :
            c \in Perms(Cats("Contract")), i \in Perms(Cats("InternetService")),
            p \in Perms(Cats("PaymentMethod")), g \in Perms(Cats("gender"))}

InitDrift ==
    /\ args = None
    /\ rec_result = None
    /\ Idle
    /\ NoReport
    /\ NoPredict
    /\ new_data_df \in Frames
    /\ baseline_df \in Frames
    /\ finding = None
    /\ drift_results = None

CheckForDrift ==
    /\ drift_results = None
    /\ \E orders \in Orders(new_data_df, baseline_df) :
          drift_results' = check_for_drift(new_data_df, baseline_df, orders)
    /\ UNCHANGED <<predictVars, serverVars, reportVars, args, rec_result, churners_data, df_churners, recommendations, pc,
                   new_data_df, baseline_df, finding>>

NextDrift == CheckForDrift

SpecDrift == InitDrift /\ [][NextDrift]_vars

----------------------------------------------------------------------------
(* Claims about check_for_drift, checked under SpecDrift *)

\* the numerical features of both frames without a usable value on one side
Insufficient ==
    {f \in Range(numerical_features) :
        /\ InBoth(new_data_df, baseline_df, f)
        /\ \/ Usable(Column(new_data_df, f)) = 0
           \/ Usable(Column(baseline_df, f)) = 0}

\* the features whose finding has the drift flag set
Flagged ==
    {f \in DOMAIN drift_results.numerical_drift :
        drift_results.numerical_drift[f].drift_detected}
    \cup {f \in DOMAIN drift_results.categorical_drift :
            drift_results.categorical_drift[f].drift_detected}

\* C10: a numerical feature without a usable row in the baseline or in the
\* batch is reported as insufficient data, drift flag False and every
\* statistic absent; it neither sets the batch-level drift_detected nor adds
\* an entry to drift_warnings.
C10_InsufficientData ==
    (drift_results # None) =>
        \A f \in Insufficient :
            LET info == drift_results.numerical_drift[f]
            IN  /\ info.drift_detected = FALSE
                /\ info.warning = <<"Insufficient data for ", f, " drift analysis">>
                /\ info.new_mean = None
                /\ info.baseline_mean = None
                /\ info.mean_change_pct = None
                /\ info.new_std = None
                /\ info.baseline_std = None
                /\ ~Contains(drift_results.drift_warnings, info.warning)
                /\ Len(drift_results.drift_warnings) = Cardinality(Flagged)
                /\ drift_results.drift_detected => (Flagged \ {f} # {})

C10_Witness ==
    /\ drift_results # None
    /\ "TotalCharges" \in Insufficient
    /\ drift_results.drift_detected
    /\ Len(drift_results.drift_warnings) = 1

\* the finding of an analysed feature
Finding(f) ==
    IF f \in DOMAIN drift_results.numerical_drift
    THEN drift_results.numerical_drift[f]
    ELSE drift_results.categorical_drift[f]

\* the features that have a finding
Analysed == DOMAIN drift_results.numerical_drift \cup DOMAIN drift_results.categorical_drift

\* C11 as stated: in every finding, numerical or categorical, the warning is
\* empty whenever the drift flag is False and non-empty whenever it is True.
C11_WarningIffFlag ==
    (drift_results # None) =>
        \A f \in Analysed : (Finding(f).warning = <<>>) <=> ~Finding(f).drift_detected

\* C11 amended: the warning is non-empty whenever the drift flag is True; when
\* the flag is False the warning is empty, except in the finding of a
\* numerical feature without a usable value on one side, whose warning is the
\* text "Insufficient data for <feature> drift analysis".
C11_WarningIffFlagOrInsufficient ==
    (drift_results # None) =>
        \A f \in Analysed :
            /\ Finding(f).drift_detected => Finding(f).warning # <<>>
            /\ ~Finding(f).drift_detected =>
                  IF f \in Insufficient
                  THEN Finding(f).warning = <<"Insufficient data for ", f, " drift analysis">>
                  ELSE Finding(f).warning = <<>>

C11_Witness ==
    /\ drift_results # None
    /\ Insufficient # {}
    /\ \E f \in Analysed \ Insufficient : ~Finding(f).drift_detected
    /\ \E f \in DOMAIN drift_results.numerical_drift : Finding(f).drift_detected
    /\ \E f \in DOMAIN drift_results.categorical_drift : Finding(f).drift_detected

\* the warnings of the flagged features among the first n of a feature list
RECURSIVE FlaggedWarnings(_, _)
FlaggedWarnings(features, n) ==
    IF n = 0 THEN <<>>
    ELSE FlaggedWarnings(features, n - 1)
         \o (IF features[n] \in Flagged THEN <<Finding(features[n]).warning>> ELSE <<>>)

\* C12: the batch-level drift_detected is True iff at least one finding has
\* its drift flag True; drift_warnings is non-empty iff drift_detected, and it
\* holds exactly the warnings of the flagged findings, those of the numerical
\* features first and then those of the categorical ones, each in configured
\* order.
C12_BatchFlagAndWarnings ==
    (drift_results # None) =>
        /\ drift_results.drift_detected <=> (Flagged # {})
        /\ (drift_results.drift_warnings # <<>>) <=> drift_results.drift_detected
        /\ drift_results.drift_warnings =
              FlaggedWarnings(numerical_features, Len(numerical_features))
              \o FlaggedWarnings(categorical_features, Len(categorical_features))

C12_Witness ==
    /\ drift_results # None
    /\ {"tenure", "MonthlyCharges", "Contract", "PaymentMethod"} \subseteq Flagged
    /\ "InternetService" \in Analysed \ Flagged
    /\ Len(drift_results.drift_warnings) >= 4

\* the configured features whose column is in the batch and in the baseline
Present ==
    {f \in {"tenure", "MonthlyCharges", "TotalCharges",
            "Contract", "InternetService", "PaymentMethod", "gender"} :
        f \in new_data_df.columns /\ f \in baseline_df.columns}

\* C13: a feature has a finding iff it is one of the seven configured ones
\* and its column is in the batch and in the baseline; a configured feature
\* absent from either input is listed in missing_features and does not set
\* drift_detected; the analysed lists and missing_features partition the
\* seven configured features.
C13_FindingsAndCoverage ==
    (drift_results # None) =>
        LET coverage == drift_results.summary_stats.feature_coverage
            numerical == Range(coverage.numerical_features_analyzed)
            categorical == Range(coverage.categorical_features_analyzed)
            missing == Range(coverage.missing_features)
        IN  /\ DOMAIN drift_results.numerical_drift =
                  Present \cap {"tenure", "MonthlyCharges", "TotalCharges"}
            /\ DOMAIN drift_results.categorical_drift =
                  Present \cap {"Contract", "InternetService", "PaymentMethod", "gender"}
            /\ missing = Features \ Present
            /\ Flagged \cap missing = {}
            /\ drift_results.drift_detected => (Flagged \ missing # {})
            /\ numerical = DOMAIN drift_results.numerical_drift
            /\ categorical = DOMAIN drift_results.categorical_drift
            /\ numerical \cup categorical \cup missing = Features
            /\ numerical \cap categorical = {}
            /\ (numerical \cup categorical) \cap missing = {}
            /\ Len(coverage.numerical_features_analyzed)
               + Len(coverage.categorical_features_analyzed)
               + Len(coverage.missing_features) = 7

C13_Witness ==
    /\ drift_results # None
    /\ "customerID" \in new_data_df.columns \cap baseline_df.columns
    /\ "customerID" \notin Analysed
    /\ "tenure" \notin new_data_df.columns
    /\ "gender" \notin baseline_df.columns
    /\ drift_results.summary_stats.feature_coverage.missing_features = <<"tenure", "gender">>
    /\ drift_results.drift_detected

----------------------------------------------------------------------------
(* _check_categorical_drift on one column: SpecCat *)

\* the values of the Contract column
ContractCategories == <<Str("Month-to-month"), Str("One year"), Str("Two year")>>

\* n cells holding the value v
Repeat(v, n) == [i \in 1..n |-> v]

\* the columns of at most MaxCatCells contract values, with or without one
\* missing cell at the end
CatColumns ==
    {Repeat(ContractCategories[1], k[1]) \o Repeat(ContractCategories[2], k[2])
        \o Repeat(ContractCategories[3], k[3]) \o Repeat(NaN, n) :
        k \in {t \in (0..MaxCatCells) \X (0..MaxCatCells) \X (0..MaxCatCells) :
                  t[1] + t[2] + t[3] <= MaxCatCells},
        n \in 0..1}

InitCat ==
    /\ args = None
    /\ rec_result = None
    /\ Idle
    /\ NoReport
    /\ NoPredict
    /\ \E new_cells \in CatColumns, base_cells \in CatColumns :
          /\ new_data_df = OneColumn("Contract", new_cells)
          /\ baseline_df = OneColumn("Contract", base_cells)
    /\ finding = None
    /\ drift_results = None

CheckCategorical ==
    /\ finding = None
    /\ \E order \in Perms(AllCategories(new_data_df, baseline_df, "Contract")) :
          finding' = _check_categorical_drift(new_data_df, baseline_df, "Contract",
                                              CategoricalThreshold, order)
    /\ UNCHANGED <<predictVars, serverVars, reportVars, args, rec_result, churners_data, df_churners, recommendations, pc,
                   new_data_df, baseline_df, drift_results>>

NextCat == CheckCategorical

SpecCat == InitCat /\ [][NextCat]_vars

----------------------------------------------------------------------------
(* Claims about _check_categorical_drift, checked under SpecCat *)

\* the number of cells of a column holding the value v
CountOf(col, v) == Cardinality({i \in 1..Len(col) : col[i] = v})

\* the values of a column, missing cells apart
Seen(col) == {col[i] : i \in 1..Len(col)} \ {NaN}

\* the cells of a column that are not missing
NonMissing(col) == Cardinality({i \in 1..Len(col) : col[i] # NaN})

newContract == Column(new_data_df, "Contract")

baseContract == Column(baseline_df, "Contract")

\* the shift of category v as a fraction <<numerator, denominator>>: the
\* distance between its shares of the non-missing cells of the two columns,
\* the share in a column that does not hold v being 0
Shift(v) ==
    LET nn == IF v \in Seen(newContract) THEN CountOf(newContract, v) ELSE 0
        nd == IF v \in Seen(newContract) THEN NonMissing(newContract) ELSE 1
        bn == IF v \in Seen(baseContract) THEN CountOf(baseContract, v) ELSE 0
        bd == IF v \in Seen(baseContract) THEN NonMissing(baseContract) ELSE 1
    IN  <<Abs(nn * bd - bn * nd), nd * bd>>

\* the categories whose shift exceeds 0.20 = 1/5
Over20 ==
    {v \in Seen(newContract) \cup Seen(baseContract) : 5 * Shift(v)[1] > Shift(v)[2]}

----------------------------------------------------------------------------
(* recommendation_agent.py: generate_html_report.  The document is kept as a
   record of what its template places in it; the fixed markup and the
   timestamp of the header (datetime.now()) are left out. *)

\* an exception in flight
Raise(type, msg) == [t |-> "raise", type |-> type, msg |-> msg]

IsRaise(v) == "t" \in DOMAIN v /\ v.t = "raise"

PyAdd(x, y) ==
    IF IsNum(x) /\ IsNum(y)
    THEN LET g == GCD(x.d, y.d)
         IN  Rat(x.n * (y.d \div g) + y.n * (x.d \div g), (x.d \div g) * y.d)
    ELSE NaN

RECURSIVE PySum(_)
\* sum(...) of a generator: the additions from 0, left to right
PySum(values) ==
    IF Len(values) = 0 THEN Num(0)
    ELSE PyAdd(PySum(SubSeq(values, 1, Len(values) - 1)), values[Len(values)])

\* the digits of 0..999 on three places
ThreeDigits(k) ==
    IF k < 10 THEN "00" \o ToString(k)
    ELSE IF k < 100 THEN "0" \o ToString(k) ELSE ToString(k)

RECURSIVE Commas(_)
\* f"{k:,}" of a natural number
Commas(k) ==
    IF k < 1000 THEN ToString(k)
    ELSE Commas(k \div 1000) \o "," \o ThreeDigits(k % 1000)

\* f"{x:.1f}"
Format1f(x) ==
    IF IsNum(x)
    THEN LET tenths == RoundHalfEven(10 * Abs(x.n), x.d)
         IN  (IF x.n < 0 THEN "-" ELSE "")
             \o ToString(tenths \div 10) \o "." \o ToString(tenths % 10)
    ELSE "nan"

\* f"{x:,.2f}"
FormatComma2f(x) ==
    IF IsNum(x)
    THEN LET hundredths == RoundHalfEven(100 * Abs(x.n), x.d)
         IN  (IF x.n < 0 THEN "-" ELSE "")
             \o Commas(hundredths \div 100) \o "." \o TwoDigits(hundredths % 100)
    ELSE "nan"

\* str() of a float that round(x, 2) returned
StrFloat(x) ==
    IF IsNum(x)
    THEN LET hundredths == RoundHalfEven(100 * Abs(x.n), x.d)
             decimals == hundredths % 100
         IN  (IF x.n < 0 THEN "-" ELSE "")
             \o ToString(hundredths \div 100) \o "."
             \o (IF decimals % 10 = 0 THEN ToString(decimals \div 10)
                 ELSE TwoDigits(decimals))
    ELSE "nan"

\* str() of a cell placed in the template: a text, an integer, a list of texts
PyStr(v) ==
    IF v.t = "str" THEN v.s
    ELSE IF v.t = "num" THEN (IF v.d = 1 THEN ToString(v.n) ELSE StrFloat(v))
    ELSE IF v.t = "list" THEN "['" \o v.item \o "']"
    ELSE "nan"

\* line 485: rec['urgency_level'].lower()
Lower(urgency_level) ==
    CASE urgency_level = "CRITICAL" -> "critical"
      [] urgency_level = "HIGH" -> "high"
      [] urgency_level = "MEDIUM" -> "medium"
      [] urgency_level = "LOW" -> "low"

\* line 184: viz_name.replace('_', ' ').title()
CleanName(viz_name) ==
    CASE viz_name = "tenure_histogram" -> "Tenure Histogram"
      [] viz_name = "MonthlyCharges_histogram" -> "Monthlycharges Histogram"
      [] viz_name = "TotalCharges_histogram" -> "Totalcharges Histogram"
      [] viz_name = "Contract_barplot" -> "Contract Barplot"
      [] viz_name = "InternetService_barplot" -> "Internetservice Barplot"
      [] viz_name = "PaymentMethod_barplot" -> "Paymentmethod Barplot"
      [] viz_name = "gender_barplot" -> "Gender Barplot"
      [] viz_name = "drift_summary_heatmap" -> "Drift Summary Heatmap"

\* monitoring_agent.py lines 181-278: the order in which the keys are put in
\* the visualizations dict, which is the order visualizations.items() yields
VisualizationKeys ==
    <<"tenure_histogram", "MonthlyCharges_histogram", "TotalCharges_histogram",
      "Contract_barplot", "InternetService_barplot", "PaymentMethod_barplot",
      "gender_barplot", "drift_summary_heatmap">>

\* lines 182-191: one item per visualization that has data
VisualizationItems(visualizations) ==
    LET shown == SelectSeq(VisualizationKeys, LAMBDA k : k \in DOMAIN visualizations)
    IN  [i \in 1..Len(shown) |->
            [clean_name |-> CleanName(shown[i]), data |-> visualizations[shown[i]]]]

\* the notice drawn for any missing value of drift_results
DriftSection_Else(drift_results_arg) ==
    IF drift_results_arg # None /\ drift_results_arg.drift_detected
    THEN [kind |-> "alerts",
          heading |-> "Data Drift Analysis",
          warning_items |-> drift_results_arg.drift_warnings,
          visualization_items |-> VisualizationItems(drift_results_arg.visualizations)]
    ELSE [kind |-> "no_drift",
          heading |-> "Data Drift Analysis",
          message |-> "No significant data drift detected. The new data appears consistent with the training baseline."]

\* lines 161-206: drift_section; kind "none" is the empty string
DriftSection(drift_results_arg) ==
    IF drift_results_arg # None /\ drift_results_arg.drift_detected
    THEN [kind |-> "alerts",
          heading |-> "Data Drift Analysis",
          warning_items |-> drift_results_arg.drift_warnings,
          visualization_items |-> VisualizationItems(drift_results_arg.visualizations)]
    ELSE IF drift_results_arg # None
    THEN [kind |-> "no_drift",
          heading |-> "Data Drift Analysis",
          message |-> "No significant data drift detected. The new data appears consistent with the training baseline."]
    ELSE [kind |-> "none"]

\* lines 484-512: the card of one recommendation
CustomerCard(rec) ==
    [customer_id |-> PyStr(rec.customer_id),
     urgency_class |-> "urgency-" \o Lower(rec.urgency_level),
     urgency_level |-> rec.urgency_level,
     churn_prob |-> StrFloat(rec.churn_probability) \o "% Risk",
     revenue_risk |-> "$" \o FormatComma2f(rec.revenue_at_risk) \o "/year",
     contract |-> PyStr(rec.contract_type),
     tenure |-> PyStr(rec.tenure_months) \o " months",
     monthly_charges |-> "$" \o (IF IsNum(rec.monthly_charges)
                                  THEN Format2f(rec.monthly_charges) ELSE "nan"),
     internet |-> PyStr(rec.internet_service),
     payment |-> PyStr(rec.payment_method),
     recommendation |-> rec.recommendation]

\* line 463: critical_count / len(recommendations) * 100, formatted .1f
CriticalPercentage(critical_count, n) ==
    IF n = 0 THEN Raise("ZeroDivisionError", "division by zero")
    ELSE Str(Format1f(Rat(critical_count * 100, n)) \o "% of high-risk")

\* lines 137-526; critical_cases and avg_churn_prob are the values the
\* endpoint passes (main.py lines 160-167), never None
generate_html_report(recs, total_customers, total_revenue_at_risk, drift_results_arg, critical_cases, avg_churn_prob) ==
    LET critical_count == critical_cases
        avg_churn_prob_value == avg_churn_prob
        drift_section == DriftSection(drift_results_arg)
        critical_pct == CriticalPercentage(critical_count, Len(recs))
    IN  IF IsRaise(critical_pct) THEN critical_pct
        ELSE [t |-> "html",
              scope |-> ToString(total_customers),
              top_k |-> Commas(total_customers),
              high_risk |-> Commas(Len(recs)),
              critical_count |-> ToString(critical_count),
              critical_pct |-> critical_pct.s,
              total_revenue |-> "$" \o FormatComma2f(total_revenue_at_risk),
              avg_churn_prob |-> Format1f(avg_churn_prob_value) \o "%",
              drift_section |-> drift_section,
              cards |-> [i \in 1..Len(recs) |-> CustomerCard(recs[i])]]

----------------------------------------------------------------------------
(* main.py: generate_recommendations_report_endpoint *)

\* monitoring_agent.py lines 390-411: none of the six paths can be read
NotFound == [t |-> "notfound"]

\* monitoring_agent.py lines 380-414
load_baseline_data(file) ==
    IF file = NotFound
    THEN Raise("FileNotFoundError",
               "No baseline data found. Please provide baseline training data.")
    ELSE file

\* a JSON array as the value of a key: a cell that cannot be hashed
ListCell(item) == [t |-> "list", item |-> item]

\* monitoring_agent.py lines 126-127: value_counts hashes the cells of the
\* column and raises TypeError on a list
ValueCountsRaises(col) == \E i \in 1..Len(col) : col[i].t = "list"

\* monitoring_agent.py lines 50-57: a categorical check that raises; nothing
\* in check_for_drift catches it
FeatureCheckRaises(new_df, base_df) ==
    \E i \in 1..Len(categorical_features) :
        /\ InBoth(new_df, base_df, categorical_features[i])
        /\ \/ ValueCountsRaises(Column(new_df, categorical_features[i]))
           \/ ValueCountsRaises(Column(base_df, categorical_features[i]))

\* monitoring_agent.py lines 14-69 with the exception a feature check raises
TryCheckForDrift(new_df, base_df, orders) ==
    IF FeatureCheckRaises(new_df, base_df)
    THEN Raise("TypeError", "unhashable type: 'list'")
    ELSE check_for_drift(new_df, base_df, orders)

\* lines 139-141: the body of the inner try
DriftAnalysisBody(df, file, orders) ==
    LET loaded == load_baseline_data(file)
    IN  IF IsRaise(loaded) THEN loaded ELSE TryCheckForDrift(df, loaded, orders)

\* the drift analysis without the inner try
DriftAnalysis_NoTry(df, file, orders) == DriftAnalysisBody(df, file, orders)

\* lines 142-144: except Exception gives drift_results = None
Except(out) == IF IsRaise(out) THEN None ELSE out

\* lines 138-144
DriftAnalysis(df, file, orders) == Except(DriftAnalysisBody(df, file, orders))

\* line 150
TotalRevenueAtRisk(recs) == PySum([i \in 1..Len(recs) |-> recs[i].revenue_at_risk])

\* line 154
CriticalCases(recs) == Cardinality({i \in 1..Len(recs) : recs[i].urgency_level = "CRITICAL"})

\* line 157
AvgChurnProb(recs) ==
    IF Len(recs) > 0
    THEN LET total == PySum([i \in 1..Len(recs) |-> recs[i].churn_probability])
         IN  IF IsNum(total) THEN Rat(total.n, total.d * Len(recs)) ELSE NaN
    ELSE Num(0)

\* lines 171-172, relative to the project root
ReportPath == "telecom_churn_frontend/drift_report.html"

\* a customerID that is a lone surrogate, "\ud800" in the JSON body: json.loads
\* accepts it, utf-8 cannot encode it
LoneSurrogate == "\\ud800"

\* line 174: the file as open(report_path, 'w') leaves it
EmptyFile == [t |-> "html", scope |-> "empty"]

\* line 175: the utf-8 encoder of the file takes every text of the document
\* but a lone surrogate
Encodable(html) ==
    \A i \in 1..Len(html.cards) : html.cards[i].customer_id # LoneSurrogate

\* line 175: what f.write raises on a document that cannot be encoded
UnicodeEncodeError ==
    Raise("UnicodeEncodeError",
          "'utf-8' codec can't encode character '\\ud800': surrogates not allowed")

\* the handler handing the exception on instead of a result
HandleException_Reraise(e) == e

\* lines 188-193
HandleException(e) ==
    [success |-> FALSE,
     message |-> <<"Error generating recommendations report: ", e.msg>>,
     error_details |-> e.msg]

\* lines 177-186
SuccessResult(df, recs) ==
    [success |-> TRUE,
     message |-> <<"Recommendations report generated successfully">>,
     report_path |-> ReportPath,
     total_customers |-> Len(df.rows),
     high_risk_customers |-> Len(recs),
     total_revenue_at_risk |-> PyRound2(TotalRevenueAtRisk(recs)),
     critical_cases |-> CriticalCases(recs),
     recommendations_preview |-> SubSeq(recs, 1, IF Len(recs) < 3 THEN Len(recs) ELSE 3)]

----------------------------------------------------------------------------
(* One report request, step by step: SpecEndpoint *)

\* customer 0001-A of the request rows
CustomerA == CHOOSE c \in Customers : c.customerID = Str("0001-A")

\* the rows of a report request: customer 0001-A, a customer whose yearly
\* charge, 240.375, has more than two decimals, a row whose Contract is a
\* JSON array, and a customer whose customerID is a lone surrogate
EndpointRows ==
    {CustomerA,
     [CustomerA EXCEPT !.customerID = Str("0004-D"),
                       !.churn_probability = Rat(65, 100),
                       !.MonthlyCharges = Rat(641, 32),
                       !.tenure = Num(30)],
     [CustomerA EXCEPT !.customerID = Str("0005-E"),
                       !.Contract = ListCell("Month-to-month")],
     [CustomerA EXCEPT !.customerID = Str(LoneSurrogate)]}

\* the baseline on disk: none, the training rows, or rows like customer 0001-A
BaselineFiles ==
    {NotFound,
     DataFrame(<<CHOOSE r \in DriftRows : r.customerID = Str("0001-A"),
                 CHOOSE r \in DriftRows : r.customerID = Str("0002-B")>>),
     DataFrame(<<CustomerA>>)}

\* the report an earlier request left in the file
EarlierReport == [t |-> "html", scope |-> "earlier"]

\* the iteration orders of the category sets, where the analysis gets to them
EndpointOrders(df, file) ==
    IF file = NotFound THEN {<<>>} ELSE Orders(df, file)

otherVars ==
    <<args, rec_result, new_data_df, baseline_df, finding, predictVars, serverVars>>

InitEndpoint ==
    /\ args = None
    /\ rec_result = None
    /\ Idle
    /\ NoDrift
    /\ baseline_file \in BaselineFiles
    /\ html_content = None
    /\ report_file \in {None, EarlierReport}
    /\ response = None
    /\ exc = None
    /\ NoPredict

\* line 135: the request body arrives and becomes a DataFrame
Receive ==
    /\ pc = "idle"
    /\ \E data \in ListsUpTo(EndpointRows, MaxEndpointRows) :
          /\ churners_data' = data
          /\ df_churners' = DataFrame(data)
    /\ pc' = "drift"
    /\ UNCHANGED <<otherVars, recommendations, drift_results, baseline_file,
                   html_content, report_file, response, exc>>

\* lines 138-144
AnalyseDrift ==
    /\ pc = "drift"
    /\ \E orders \in EndpointOrders(df_churners, baseline_file) :
          \E out \in {DriftAnalysis(df_churners, baseline_file, orders)} :
              IF IsRaise(out)
              THEN /\ exc' = out
                   /\ pc' = "except"
                   /\ UNCHANGED drift_results
              ELSE /\ drift_results' = out
                   /\ pc' = "recommend"
                   /\ UNCHANGED exc
    /\ UNCHANGED <<otherVars, churners_data, df_churners, recommendations,
                   baseline_file, html_content, report_file, response>>

\* line 147
GenerateReport ==
    /\ pc = "recommend"
    /\ recommendations' = generate_recommendations_report(df_churners)
    /\ pc' = "render"
    /\ UNCHANGED <<otherVars, churners_data, df_churners, drift_results,
                   baseline_file, html_content, report_file, response, exc>>

\* lines 149-167
Render ==
    /\ pc = "render"
    /\ LET total_revenue_at_risk == TotalRevenueAtRisk(recommendations)
           top_k_customers == Len(df_churners.rows)
           critical_cases == CriticalCases(recommendations)
           avg_churn_prob == AvgChurnProb(recommendations)
       IN  \E out \in {generate_html_report(recommendations, top_k_customers,
                                            total_revenue_at_risk, drift_results,
                                            critical_cases, avg_churn_prob)} :
           IF IsRaise(out)
           THEN /\ exc' = out
                /\ pc' = "except"
                /\ UNCHANGED html_content
           ELSE /\ html_content' = out
                /\ pc' = "write"
                /\ UNCHANGED exc
    /\ UNCHANGED <<otherVars, churners_data, df_churners, recommendations,
                   drift_results, baseline_file, report_file, response>>

\* line 174: open(report_path, 'w') creates the file or cuts it to length 0
OpenReport ==
    /\ pc = "write"
    /\ report_file' = EmptyFile
    /\ pc' = "writing"
    /\ UNCHANGED <<otherVars, churners_data, df_churners, recommendations,
                   drift_results, baseline_file, html_content, response, exc>>

\* line 174: open() fails, the directory being absent or not writable
WriteFails ==
    /\ pc = "write"
    /\ exc' = Raise("OSError", "[Errno 13] Permission denied: '" \o ReportPath \o "'")
    /\ pc' = "except"
    /\ UNCHANGED <<otherVars, churners_data, df_churners, recommendations,
                   drift_results, baseline_file, html_content, report_file, response>>

\* line 175: f.write(html_content), the document being encodable
WriteReport ==
    /\ pc = "writing"
    /\ Encodable(html_content)
    /\ report_file' = html_content
    /\ pc' = "return"
    /\ UNCHANGED <<otherVars, churners_data, df_churners, recommendations,
                   drift_results, baseline_file, html_content, response, exc>>

\* line 175: f.write(html_content) raises while encoding; the file stays as
\* open() left it
EncodeFails ==
    /\ pc = "writing"
    /\ ~Encodable(html_content)
    /\ exc' = UnicodeEncodeError
    /\ pc' = "except"
    /\ UNCHANGED <<otherVars, churners_data, df_churners, recommendations,
                   drift_results, baseline_file, html_content, report_file, response>>

\* lines 177-186
ReturnSuccess ==
    /\ pc = "return"
    /\ response' = SuccessResult(df_churners, recommendations)
    /\ pc' = "done"
    /\ UNCHANGED <<otherVars, churners_data, df_churners, recommendations,
                   drift_results, baseline_file, html_content, report_file, exc>>

\* lines 188-193
ReturnFailure ==
    /\ pc = "except"
    /\ response' = HandleException(exc)
    /\ pc' = "done"
    /\ UNCHANGED <<otherVars, churners_data, df_churners, recommendations,
                   drift_results, baseline_file, html_content, report_file, exc>>

NextEndpoint ==
    \/ Receive
    \/ AnalyseDrift
    \/ GenerateReport
    \/ Render
    \/ OpenReport
    \/ WriteFails
    \/ WriteReport
    \/ EncodeFails
    \/ ReturnSuccess
    \/ ReturnFailure

SpecEndpoint == InitEndpoint /\ [][NextEndpoint]_vars

----------------------------------------------------------------------------
(* Claims about the report request, checked under SpecEndpoint *)

\* the drift analysis of the request is over
DriftStepDone == pc \notin {"idle", "drift"}

\* the request body holds a row whose Contract cannot be counted
ContractFails == \E i \in 1..Len(churners_data) : churners_data[i].Contract.t = "list"

\* C15: a failure while analysing one feature is caught and only that
\* feature is skipped: with a baseline loaded and a batch whose Contract
\* column makes its check fail, the findings of the other features present on
\* both sides are still produced and the report still gets its drift section.
C15_FeatureFailureSkipped ==
    (DriftStepDone /\ baseline_file # NotFound /\ ContractFails) =>
        /\ drift_results # None
        /\ "MonthlyCharges" \in DOMAIN drift_results.numerical_drift
        /\ "tenure" \in DOMAIN drift_results.numerical_drift
        /\ "InternetService" \in DOMAIN drift_results.categorical_drift
        /\ "PaymentMethod" \in DOMAIN drift_results.categorical_drift
        /\ (html_content # None) => (html_content.drift_section.kind # "none")

\* C16: rendering a report with zero recommendations gives a document showing
\* critical count 0 and a critical percentage of 0, and raises no
\* division-by-zero fault.
C16_EmptyReportRenders ==
    (pc \in {"write", "writing", "return", "except", "done"} /\ churners_data = <<>>) =>
        /\ exc = None
        /\ html_content # None
        /\ html_content.critical_count = "0"
        /\ html_content.critical_pct = "0.0% of high-risk"

C18_NoExceptionEscapes ==
    /\ (exc # None) => (pc \in {"except", "done"})
    /\ (pc = "done") =>
          /\ ~IsRaise(response)
          /\ {"success", "message"} \subseteq DOMAIN response
          /\ response.success \in BOOLEAN
          /\ response.success <=> (exc = None)
          /\ response.success =>
                response.message = <<"Recommendations report generated successfully">>
          /\ ~response.success =>
                /\ response.message =
                      <<"Error generating recommendations report: ", exc.msg>>
                /\ response.error_details = exc.msg
          /\ (churners_data = <<>>) =>
                /\ ~response.success
                /\ response.error_details = "division by zero"

C18_Witness ==
    /\ pc = "done"
    /\ churners_data = <<>>
    /\ ~response.success
    /\ exc.type = "ZeroDivisionError"

\* C19: the rendered report has a drift section only if a drift result was
\* passed in: with drift_detected True it shows the alert list, one item per
\* drift warning, and the visualizations; with drift_detected False it shows
\* the "no drift" notice; without a result it has no drift section.
C19_DriftSectionCases ==
    (html_content # None) =>
        LET section == html_content.drift_section
        IN  /\ (section.kind # "none") => (drift_results # None)
            /\ (drift_results = None) => (section = [kind |-> "none"])
            /\ (drift_results # None) =>
                  IF drift_results.drift_detected
                  THEN /\ section.kind = "alerts"
                       /\ section.warning_items = drift_results.drift_warnings
                       /\ Len(section.visualization_items) =
                             Cardinality(DOMAIN drift_results.visualizations)
                       /\ Cardinality({section.visualization_items[i].clean_name :
                                          i \in 1..Len(section.visualization_items)}) =
                             Cardinality(DOMAIN drift_results.visualizations)
                  ELSE /\ section.kind = "no_drift"
                       /\ "warning_items" \notin DOMAIN section
                       /\ section.message = "No significant data drift detected. The new data appears consistent with the training baseline."

C19_Witness ==
    /\ html_content # None
    /\ html_content.drift_section.kind = "alerts"
    /\ Len(html_content.drift_section.warning_items) >= 2
    /\ Len(html_content.drift_section.visualization_items) >= 3

\* the per-customer revenue at risk in hundredths
Hundredths(r) == r.n * (100 \div r.d)

RECURSIVE TotalHundredths(_)
\* the sum of the per-customer values of the first n recommendations
TotalHundredths(n) ==
    IF n = 0 THEN 0
    ELSE TotalHundredths(n - 1) + Hundredths(recommendations[n].revenue_at_risk)

\* C20: each Recommendation's revenue_at_risk is the monthly charge times 12
\* rounded to 2 decimals (to the nearest hundredth, a tie to the even one);
\* 85.50 gives 1026.00; the total the endpoint reports is the sum of the
\* per-customer values.
C20_RevenueAtRisk ==
    (pc \in {"render", "write", "writing", "return", "except", "done"}) =>
        /\ Len(recommendations) = Len(churners_data)
        /\ \A i \in 1..Len(recommendations) :
              LET c == churners_data[i].MonthlyCharges
                  r == recommendations[i].revenue_at_risk
                  k == Hundredths(r)
                  off == Abs(k * c.d - 1200 * c.n)
              IN  /\ r.t = "num"
                  /\ 100 % r.d = 0
                  /\ 2 * off <= c.d
                  /\ (2 * off = c.d) => (k % 2 = 0)
                  /\ (c = Rat(8550, 100)) => (r = Rat(102600, 100))
        /\ (pc = "done" /\ response.success) =>
              /\ response.total_revenue_at_risk.t = "num"
              /\ 100 % response.total_revenue_at_risk.d = 0
              /\ Hundredths(response.total_revenue_at_risk) =
                    TotalHundredths(Len(recommendations))

C20_Witness ==
    /\ pc = "done"
    /\ response.success
    /\ Len(recommendations) = 2
    /\ recommendations[1].revenue_at_risk = Num(1026)
    /\ recommendations[2].revenue_at_risk = Rat(24038, 100)
    /\ response.total_revenue_at_risk = Rat(126638, 100)

----------------------------------------------------------------------------
(* api/inference_preprocess.py: preprocess_inference.  A frame is
   [columns, rows] as DataFrame builds it.  The function changes the frame it
   is handed in place; the operators below give the content the frame has
   afterwards, and the actions store it in the object that was passed. *)

MaxTenure == 62     \* the largest tenure handed to preprocess_inference

\* line 8: df.drop(columns=["customerID"], inplace=True, errors="ignore")
DropCustomerID(frame) ==
    LET kept == frame.columns \ {"customerID"}
    IN  [columns |-> kept,
         rows |-> [i \in 1..Len(frame.rows) |-> [c \in kept |-> frame.rows[i][c]]]]

\* Series.fillna(0) on one cell
FillNa0(cell) == IF cell = NaN THEN Num(0) ELSE cell

\* lines 11-18
CleanTotalCharges(frame) ==
    IF "TotalCharges" \in frame.columns
    THEN [frame EXCEPT !.rows =
             [i \in 1..Len(frame.rows) |->
                [frame.rows[i] EXCEPT !.TotalCharges = FillNa0(ToNumeric(@))]]]
    ELSE frame

\* lines 21-24
service_cols ==
    {"OnlineSecurity", "OnlineBackup", "DeviceProtection", "TechSupport",
     "StreamingTV", "StreamingMovies", "MultipleLines"}

\* lines 27: .replace({"No internet service": "No", "No phone service": "No"})
ReplaceNoService(cell) ==
    IF cell \in {Str("No internet service"), Str("No phone service")}
    THEN Str("No") ELSE cell

\* lines 25-27
StandardiseServices(frame) ==
    [frame EXCEPT !.rows =
        [i \in 1..Len(frame.rows) |->
           [c \in frame.columns |->
              IF c \in service_cols THEN ReplaceNoService(frame.rows[i][c])
              ELSE frame.rows[i][c]]]]

\* line 31: df["tenure"].replace(0, 1) on one cell
Replace0By1(cell) == IF cell = Num(0) THEN Num(1) ELSE cell

\* x / y on float cells: NaN propagates; the divisor is never 0 here
PyTrueDiv(x, y) ==
    IF IsNum(x) /\ IsNum(y) /\ y.n # 0 THEN Rat(x.n * y.d, x.d * y.n) ELSE NaN

\* np.inf as a bin edge
Inf == [t |-> "inf"]

\* line 40
TenureBins == <<Rat(-1, 10), Num(12), Num(24), Num(48), Num(60), Inf>>

\* line 41
TenureLabels == <<"0-12", "13-24", "25-48", "49-60", "61+">>

\* edge < x and x <= edge for a bin edge that may be np.inf
EdgeLT(edge, x) == edge # Inf /\ PyLT(edge, x)

EdgeGE(edge, x) == edge = Inf \/ ~PyGT(x, edge)

\* pd.cut with right=False: the bands [edge, next edge)
Cut_LeftClosed(x, bins, labels) ==
    IF ~IsNum(x) THEN NaN
    ELSE LET hit == {i \in 1..Len(labels) :
                        ~EdgeLT(x, bins[i]) /\ (bins[i + 1] = Inf \/ PyLT(x, bins[i + 1]))}
         IN  IF hit = {} THEN NaN ELSE Str(labels[CHOOSE i \in hit : TRUE])

\* pd.cut(x, bins, labels) with the default right=True: the label of the band
\* (edge, next edge] holding x, NaN for a missing value and outside all bands
Cut(x, bins, labels) ==
    IF ~IsNum(x) THEN NaN
    ELSE LET hit == {i \in 1..Len(labels) :
                        EdgeLT(bins[i], x) /\ EdgeGE(bins[i + 1], x)}
         IN  IF hit = {} THEN NaN ELSE Str(labels[CHOOSE i \in hit : TRUE])

\* lines 30-42
TenureFeatures(frame) ==
    IF "tenure" \in frame.columns
    THEN LET spend == IF "MonthlyCharges" \in frame.columns THEN {"TotalSpend"} ELSE {}
             avg == IF "TotalCharges" \in frame.columns THEN {"AvgChargesPerMonth"} ELSE {}
             cols == frame.columns \cup spend \cup avg \cup {"tenure_group"}
             derived(row, c) ==
                 CASE c = "TotalSpend" -> PyMul(row.MonthlyCharges, row.tenure)
                   [] c = "AvgChargesPerMonth" ->
                         PyTrueDiv(row.TotalCharges, Replace0By1(row.tenure))
                   [] c = "tenure_group" -> Cut(row.tenure, TenureBins, TenureLabels)
         IN  [columns |-> cols,
              rows |-> [i \in 1..Len(frame.rows) |->
                          [c \in cols |->
                             IF c \in spend \cup avg \cup {"tenure_group"}
                             THEN derived(frame.rows[i], c) ELSE frame.rows[i][c]]]]
    ELSE frame

\* lines 4-49: the content of df when the function returns; the change of
\* dtype to category (lines 42, 45-47) leaves the values as they are
preprocess_inference(frame) ==
    TenureFeatures(StandardiseServices(CleanTotalCharges(DropCustomerID(frame))))

----------------------------------------------------------------------------
(* preprocess_inference on one uploaded row: SpecCut *)

\* the tenures of the row: the halves from -1 to MaxTenure, and a missing one
CutTenures == {Rat(k, 2) : k \in (-2)..(2 * MaxTenure)} \cup {NaN}

\* the other cells of the row
CutRow(tenure, total) ==
    [customerID |-> Str("0001-A"), tenure |-> tenure,
     MonthlyCharges |-> Rat(171, 2), TotalCharges |-> total,
     OnlineSecurity |-> Str("No internet service")]

InitCut ==
    /\ args \in {DataFrame(<<CutRow(t, total)>>) :
                    t \in CutTenures, total \in {Rat(4275, 10), Str(" ")}}
    /\ rec_result = None
    /\ Idle
    /\ NoDrift
    /\ NoReport
    /\ NoPredict

\* preprocess_inference(df) on the frame of the row
Preprocess ==
    /\ rec_result = None
    /\ rec_result' = preprocess_inference(args)
    /\ UNCHANGED <<predictVars, serverVars, reportVars, args, churners_data,
                   df_churners, recommendations, pc, driftVars>>

NextCut == Preprocess

SpecCut == InitCut /\ [][NextCut]_vars

\* C21: preprocess_inference bins tenure into five right-inclusive bands:
\* 0 up to and including 12 gives "0-12", above 12 up to 24 "13-24", above 24
\* up to 48 "25-48", above 48 up to 60 "49-60", above 60 "61+"; so 12 is in
\* "0-12", 13 in "13-24", 0 in "0-12" and 61 in "61+".
C21_TenureBands ==
    (rec_result # None) =>
        LET t == args.rows[1].tenure
            g == rec_result.rows[1].tenure_group
            upto(a) == t.n <= a * t.d
        IN  (IsNum(t) /\ t.n >= 0) =>
              /\ g = Str(IF upto(12) THEN "0-12"
                         ELSE IF upto(24) THEN "13-24"
                         ELSE IF upto(48) THEN "25-48"
                         ELSE IF upto(60) THEN "49-60" ELSE "61+")
              /\ (t = Num(12)) => (g = Str("0-12"))
              /\ (t = Num(13)) => (g = Str("13-24"))
              /\ (t = Num(0)) => (g = Str("0-12"))
              /\ (t = Num(61)) => (g = Str("61+"))

C21_Witness ==
    /\ rec_result # None
    /\ args.rows[1].tenure = Num(12)
    /\ rec_result.rows[1].tenure_group = Str("0-12")

----------------------------------------------------------------------------
(* main.py: predict_churn.  DataFrames are objects: heap[ref] is the content
   of the frame with identity ref, and a variable of the handler holds a
   reference.  The classifier (xgb_pipe) is outside the repository: it gives
   one probability per row, any of ClassifierOutputs. *)

MaxUploadRows == 2  \* data lines of an uploaded CSV

MaxK == 3           \* the largest k_value of a request

\* the numbers read_csv parses among the cells of the model's uploads
CsvNumbers ==
    [s \in {"0", "5", "30", "85.5", "20.05", "9"} |->
        CASE s = "0" -> Num(0)
          [] s = "5" -> Num(5)
          [] s = "30" -> Num(30)
          [] s = "85.5" -> Rat(171, 2)
          [] s = "20.05" -> Rat(2005, 100)
          [] s = "9" -> Num(9)]

\* line 74: pd.read_csv: a column whose cells all parse as numbers becomes
\* numeric, any other column keeps its texts
ReadCsv(lines) ==
    LET cols == DOMAIN lines[1]
        numeric(c) == \A i \in 1..Len(lines) : lines[i][c] \in DOMAIN CsvNumbers
    IN  [columns |-> cols,
         rows |-> [i \in 1..Len(lines) |->
                     [c \in cols |-> IF numeric(c) THEN CsvNumbers[lines[i][c]]
                                     ELSE Str(lines[i][c])]]]

\* original_data = df: a second name of the same object
Copy_Alias(h, ref) == [heap |-> h, ref |-> ref]

\* line 77: df.copy(): a new object with the same content
Copy(h, ref) == [heap |-> Append(h, h[ref]), ref |-> Len(h) + 1]

\* line 86
Preds(probabilities, threshold) ==
    [i \in 1..Len(probabilities) |->
        IF ~PyLT(probabilities[i], threshold) THEN 1 ELSE 0]

\* lines 89-90: the two columns added to original_data
Augment(frame, probabilities, predictions) ==
    LET cols == frame.columns \cup {"churn_probability", "prediction"}
    IN  [columns |-> cols,
         rows |-> [i \in 1..Len(frame.rows) |->
                     [c \in cols |->
                        CASE c = "churn_probability" -> probabilities[i]
                          [] c = "prediction" -> Num(predictions[i])
                          [] OTHER -> frame.rows[i][c]]]]

\* the list without its i-th element
Remove(rows, i) == SubSeq(rows, 1, i - 1) \o SubSeq(rows, i + 1, Len(rows))

\* DataFrame.head(k)
NLargest_Head(rows, k, col) == SubSeq(rows, 1, IF k < Len(rows) THEN k ELSE Len(rows))

RECURSIVE NLargest(_, _, _)
\* DataFrame.nlargest(k, col): the k rows with the largest values, largest
\* first, the earlier row first among equal values (keep='first')
NLargest(rows, k, col) ==
    IF k = 0 \/ Len(rows) = 0 THEN <<>>
    ELSE LET best == CHOOSE i \in 1..Len(rows) :
                        /\ \A j \in 1..Len(rows) : ~PyGT(rows[j][col], rows[i][col])
                        /\ \A j \in 1..(i - 1) : PyGT(rows[i][col], rows[j][col])
         IN  <<rows[best]>> \o NLargest(Remove(rows, best), k - 1, col)

\* lines 93-99; to_dict('records') gives the rows as dicts
ResultData(frame, k) ==
    IF k # None /\ k.n > 0
    THEN NLargest(frame.rows, k.n, "churn_probability")
    ELSE frame.rows

RECURSIVE SumInts(_)
\* sum(preds)
SumInts(values) ==
    IF Len(values) = 0 THEN 0 ELSE values[1] + SumInts(Tail(values))

\* lines 101-112
Summary(predictions) ==
    LET total == Len(predictions)
        churn_count == SumInts(predictions)
        no_churn_count == total - churn_count
    IN  [total_customers |-> total,
         churn_count |-> churn_count,
         no_churn_count |-> no_churn_count,
         churn_percentage |->
             IF total > 0 THEN PyRound2(Rat(100 * churn_count, total)) ELSE Num(0),
         no_churn_percentage |->
             IF total > 0 THEN PyRound2(Rat(100 * no_churn_count, total)) ELSE Num(0)]

----------------------------------------------------------------------------
(* One prediction request, step by step: SpecPredict *)

\* the data lines of the uploads, under the header customerID, tenure,
\* MonthlyCharges, TotalCharges, OnlineSecurity
CsvLines ==
    {[customerID |-> "0001-A", tenure |-> "0", MonthlyCharges |-> "85.5",
      TotalCharges |-> " ", OnlineSecurity |-> "No internet service"],
     [customerID |-> "0002-B", tenure |-> "5", MonthlyCharges |-> "20.05",
      TotalCharges |-> "9", OnlineSecurity |-> "Yes"],
     [customerID |-> "0003-C", tenure |-> "30", MonthlyCharges |-> "85.5",
      TotalCharges |-> "9", OnlineSecurity |-> "No"]}

\* the uploads: a header and at least one data line
Uploads == {u \in ListsUpTo(CsvLines, MaxUploadRows) : Len(u) >= 1}

\* what the classifier may give for a row
ClassifierOutputs == {Rat(1, 4), Rat(1, 2), Rat(3, 4)}

\* lines 48-50: best_threshold of models/xgb_threshold.json
Thresholds == {Rat(1, 2)}

\* the values of the query parameter
KValues == {None} \cup {Num(k) : k \in (-1)..MaxK}

\* the lists of n elements of S
ListsOf(S, n) == {l \in ListsUpTo(S, n) : Len(l) = n}

InitPredict ==
    /\ args = None
    /\ rec_result = None
    /\ Idle
    /\ NoDrift
    /\ NoReport
    /\ contents \in Uploads
    /\ k_value \in KValues
    /\ xgb_threshold \in Thresholds
    /\ heap = <<>>
    /\ df_upload = None
    /\ original_data = None
    /\ df_processed = None
    /\ proba = None
    /\ preds = None
    /\ prediction = None
    /\ requests = None
    /\ running = None
    /\ log = None

predictFrame == <<args, rec_result, churners_data, df_churners, recommendations,
                  driftVars, reportVars, serverVars, contents, k_value, xgb_threshold>>

\* lines 72-74
ReadUpload ==
    /\ pc = "idle"
    /\ heap' = <<ReadCsv(contents)>>
    /\ df_upload' = 1
    /\ pc' = "copy"
    /\ UNCHANGED <<predictFrame, original_data, df_processed, proba, preds, prediction>>

\* line 77
CopyOriginal ==
    /\ pc = "copy"
    /\ LET copied == Copy(heap, df_upload)
       IN  /\ heap' = copied.heap
           /\ original_data' = copied.ref
    /\ pc' = "preprocess"
    /\ UNCHANGED <<predictFrame, df_upload, df_processed, proba, preds, prediction>>

\* line 80: preprocess_inference changes the object it is handed and returns it
PreprocessUpload ==
    /\ pc = "preprocess"
    /\ heap' = [heap EXCEPT ![df_upload] = preprocess_inference(@)]
    /\ df_processed' = df_upload
    /\ pc' = "predict"
    /\ UNCHANGED <<predictFrame, df_upload, original_data, proba, preds, prediction>>

\* lines 83-86
Predict ==
    /\ pc = "predict"
    /\ \E probabilities \in ListsOf(ClassifierOutputs, Len(heap[df_processed].rows)) :
          /\ proba' = probabilities
          /\ preds' = Preds(probabilities, xgb_threshold)
    /\ pc' = "augment"
    /\ UNCHANGED <<predictFrame, heap, df_upload, original_data, df_processed, prediction>>

\* lines 89-90
AddPredictions ==
    /\ pc = "augment"
    /\ heap' = [heap EXCEPT ![original_data] = Augment(@, proba, preds)]
    /\ pc' = "respond"
    /\ UNCHANGED <<predictFrame, df_upload, original_data, df_processed, proba, preds,
                   prediction>>

\* lines 93-119
Respond ==
    /\ pc = "respond"
    /\ prediction' = [data |-> ResultData(heap[original_data], k_value),
                      summary |-> Summary(preds),
                      threshold_used |-> xgb_threshold,
                      k_value_applied |-> k_value]
    /\ pc' = "done"
    /\ UNCHANGED <<predictFrame, heap, df_upload, original_data, df_processed, proba, preds>>

NextPredict ==
    \/ ReadUpload
    \/ CopyOriginal
    \/ PreprocessUpload
    \/ Predict
    \/ AddPredictions
    \/ Respond

SpecPredict == InitPredict /\ [][NextPredict]_vars

\* the upload as read_csv gives it
Uploaded == ReadCsv(contents)

\* row is the uploaded row u with the two prediction columns added
AugmentedFrom(row, u) ==
    /\ DOMAIN row = DOMAIN u \cup {"churn_probability", "prediction"}
    /\ \A c \in DOMAIN u : row[c] = u[c]

\* C22: in predict_churn the preprocessing does not change the caller's
\* original records: once preprocess_inference has run, original_data still
\* holds the uploaded columns and values (customerID, the raw service flags,
\* TotalCharges as uploaded); every row of the response is an uploaded row
\* with only churn_probability and prediction added, and no derived column
\* (TotalSpend, AvgChargesPerMonth, tenure_group) is in the response.
C22_OriginalRecordsKept ==
    /\ (pc \in {"predict", "augment"}) => (heap[original_data] = Uploaded)
    /\ (pc \in {"respond", "done"}) =>
          /\ Len(heap[original_data].rows) = Len(Uploaded.rows)
          /\ \A i \in 1..Len(Uploaded.rows) :
                AugmentedFrom(heap[original_data].rows[i], Uploaded.rows[i])
    /\ (pc = "done") =>
          /\ \A i \in 1..Len(prediction.data) :
                /\ \E j \in 1..Len(Uploaded.rows) :
                      AugmentedFrom(prediction.data[i], Uploaded.rows[j])
                /\ DOMAIN prediction.data[i] \cap
                      {"TotalSpend", "AvgChargesPerMonth", "tenure_group"} = {}
          /\ (k_value = None) =>
                /\ Len(prediction.data) = Len(Uploaded.rows)
                /\ \A i \in 1..Len(Uploaded.rows) :
                      AugmentedFrom(prediction.data[i], Uploaded.rows[i])

C22_Witness ==
    /\ pc = "done"
    /\ k_value = None
    /\ Len(prediction.data) = 2
    /\ prediction.data[1].customerID = Str("0001-A")
    /\ prediction.data[1].TotalCharges = Str(" ")
    /\ prediction.data[1].OnlineSecurity = Str("No internet service")
    /\ "customerID" \notin heap[df_processed].columns
    /\ heap[df_processed].rows[1].TotalCharges = Num(0)
    /\ heap[df_processed].rows[1].OnlineSecurity = Str("No")
    /\ heap[df_processed].rows[1].tenure_group = Str("0-12")

\* x >= y on two numbers
AtLeast(x, y) == x.n * y.d >= y.n * x.d

\* the probability of the i-th row of the response
DataProbability(i) == prediction.data[i].churn_probability

\* C30: predict_churn with k_value > 0 returns min(k_value, n) rows, those
\* with the highest churn probabilities, in non-increasing order of
\* probability; with k_value absent, 0 or negative it returns all n rows in
\* upload order.  A row's prediction is 1 exactly when its probability is at
\* least the threshold, and the summary counts are over all n rows whatever
\* k_value is: churn_count + no_churn_count = total_customers = n.
C30_TopKAndSummary ==
    /\ (pc \in {"augment", "respond", "done"}) =>
          \A i \in 1..Len(preds) :
             /\ preds[i] \in {0, 1}
             /\ (preds[i] = 1) <=> AtLeast(proba[i], xgb_threshold)
    /\ (pc = "done") =>
          LET n == Len(Uploaded.rows)
              data == prediction.data
              rows == heap[original_data].rows
          IN  /\ (k_value # None /\ k_value.n > 0) =>
                    /\ Len(data) = (IF k_value.n < n THEN k_value.n ELSE n)
                    /\ \A i \in 1..(Len(data) - 1) :
                          AtLeast(DataProbability(i), DataProbability(i + 1))
                    /\ \E f \in [1..Len(data) -> 1..n] :
                          /\ \A i, j \in 1..Len(data) : (f[i] = f[j]) => (i = j)
                          /\ \A i \in 1..Len(data) : data[i] = rows[f[i]]
                    /\ \A j \in 1..n :
                          Cardinality({i \in 1..n : ~AtLeast(proba[j], proba[i])}) >= Len(data)
                             => Cardinality({i \in 1..Len(data) :
                                               ~AtLeast(proba[j], DataProbability(i))})
                                   = Len(data)
              /\ (k_value = None \/ k_value.n <= 0) =>
                    /\ Len(data) = n
                    /\ \A i \in 1..n :
                          /\ data[i].customerID = Uploaded.rows[i].customerID
                          /\ data[i].churn_probability = proba[i]
              /\ \A i \in 1..Len(data) :
                    /\ data[i].prediction \in {Num(0), Num(1)}
                    /\ (data[i].prediction = Num(1))
                          <=> AtLeast(DataProbability(i), prediction.threshold_used)
              /\ prediction.threshold_used = xgb_threshold
              /\ prediction.summary.total_customers = n
              /\ prediction.summary.churn_count =
                    Cardinality({i \in 1..n : AtLeast(proba[i], xgb_threshold)})
              /\ prediction.summary.churn_count + prediction.summary.no_churn_count = n

C30_Witness ==
    /\ pc = "done"
    /\ k_value = Num(1)
    /\ Len(contents) = 2
    /\ proba = <<Rat(1, 2), Rat(3, 4)>>
    /\ Len(prediction.data) = 1
    /\ prediction.data[1].customerID = Uploaded.rows[2].customerID
    /\ prediction.data[1].customerID # Uploaded.rows[1].customerID
    /\ prediction.summary.churn_count = 2
    /\ prediction.summary.total_customers = 2

----------------------------------------------------------------------------
(* The report file across a failing request, checked under SpecEndpoint *)

\* the file is as it was before the request: the request can only empty it
\* or put its own document in it
FileUntouched == report_file \in {None, EarlierReport}

\* C25: when the report endpoint returns a failure result, the report file
\* persisted before is left unchanged: the file is opened for writing only
\* after drift analysis, recommendation generation and rendering have all
\* succeeded.
C25_FailureLeavesFile ==
    /\ (pc \in {"idle", "drift", "recommend", "render", "write"}) => FileUntouched
    /\ (pc = "done" /\ ~response.success) => FileUntouched

----------------------------------------------------------------------------
(* main.py lines 429-431: uvicorn.run(app) serves every request on the one
   event loop of one process.  The loop runs one coroutine at a time and
   takes another only when the running one awaits or returns: SpecServer.
   Each request has the local variables of its own call of the handler. *)

MaxRequests == 2    \* report requests sent to the server

RequestIds == 1..MaxRequests

\* the bodies of the requests: no customer, customer 0001-A, the customer
\* whose customerID is a lone surrogate
ServerBodies == {<<>>, <<CustomerA>>, <<[CustomerA EXCEPT !.customerID = Str(LoneSurrogate)]>>}

\* the baseline on disk
ServerBaselines == {NotFound, DataFrame(<<CustomerA>>)}

\* a request not yet sent
NoRequest ==
    [pc |-> "absent", churners_data |-> <<>>, df_churners |-> None,
     drift_results |-> None, recommendations |-> <<>>, html_content |-> None,
     exc |-> None, response |-> None]

\* lines 133-193 hold no await: whatever position the handler has reached,
\* the request keeps the event loop
AfterStep(r, position) == r

InitServer ==
    /\ args = None
    /\ rec_result = None
    /\ Idle
    /\ NoDrift
    /\ html_content = None
    /\ response = None
    /\ exc = None
    /\ contents = None
    /\ heap = None
    /\ df_upload = None
    /\ original_data = None
    /\ df_processed = None
    /\ k_value = None
    /\ xgb_threshold = None
    /\ proba = None
    /\ preds = None
    /\ prediction = None
    /\ baseline_file \in ServerBaselines
    /\ report_file \in {None, EarlierReport}
    /\ requests = [r \in RequestIds |-> NoRequest]
    /\ running = 0
    /\ log = <<>>

serverFrame ==
    <<args, rec_result, churners_data, df_churners, recommendations, pc, driftVars,
      html_content, response, exc, predictVars, baseline_file>>

\* a request reaches the server and its handler becomes a task of the loop
Arrive(r) ==
    /\ requests[r].pc = "absent"
    /\ \E data \in ServerBodies :
          requests' = [requests EXCEPT ![r].pc = "queued", ![r].churners_data = data]
    /\ UNCHANGED <<serverFrame, report_file, running, log>>

\* the loop, running nothing, takes a task that is not finished
Schedule(r) ==
    /\ running = 0
    /\ requests[r].pc \notin {"absent", "done"}
    /\ running' = r
    /\ UNCHANGED <<serverFrame, report_file, requests, log>>

\* line 135
BuildFrame(r) ==
    /\ running = r
    /\ requests[r].pc = "queued"
    /\ requests' = [requests EXCEPT ![r].pc = "drift",
                                    ![r].df_churners = DataFrame(requests[r].churners_data)]
    /\ running' = AfterStep(r, "queued")
    /\ UNCHANGED <<serverFrame, report_file, log>>

\* lines 138-144
AnalyseDriftOf(r) ==
    /\ running = r
    /\ requests[r].pc = "drift"
    /\ \E orders \in EndpointOrders(requests[r].df_churners, baseline_file) :
        \E out \in {DriftAnalysis(requests[r].df_churners, baseline_file, orders)} :
          requests' = [requests EXCEPT ![r].pc = "recommend", ![r].drift_results = out]
    /\ running' = AfterStep(r, "drift")
    /\ UNCHANGED <<serverFrame, report_file, log>>

\* line 147
GenerateReportOf(r) ==
    /\ running = r
    /\ requests[r].pc = "recommend"
    /\ requests' = [requests EXCEPT
                      ![r].pc = "render",
                      ![r].recommendations =
                          generate_recommendations_report(requests[r].df_churners)]
    /\ running' = AfterStep(r, "recommend")
    /\ UNCHANGED <<serverFrame, report_file, log>>

\* lines 149-167
RenderOf(r) ==
    /\ running = r
    /\ requests[r].pc = "render"
    /\ LET recs == requests[r].recommendations
       IN  \E out \in {generate_html_report(recs, Len(requests[r].df_churners.rows),
                                            TotalRevenueAtRisk(recs),
                                            requests[r].drift_results,
                                            CriticalCases(recs), AvgChurnProb(recs))} :
              requests' = IF IsRaise(out)
                          THEN [requests EXCEPT ![r].pc = "except", ![r].exc = out]
                          ELSE [requests EXCEPT ![r].pc = "write", ![r].html_content = out]
    /\ running' = AfterStep(r, "render")
    /\ UNCHANGED <<serverFrame, report_file, log>>

\* line 174: open(report_path, 'w')
OpenReportOf(r) ==
    /\ running = r
    /\ requests[r].pc = "write"
    /\ report_file' = EmptyFile
    /\ requests' = [requests EXCEPT ![r].pc = "writing"]
    /\ running' = AfterStep(r, "write")
    /\ UNCHANGED <<serverFrame, log>>

\* line 174: open() fails
OpenFailsOf(r) ==
    /\ running = r
    /\ requests[r].pc = "write"
    /\ requests' = [requests EXCEPT
                      ![r].pc = "except",
                      ![r].exc = Raise("OSError", "[Errno 13] Permission denied: '"
                                                  \o ReportPath \o "'")]
    /\ running' = AfterStep(r, "write")
    /\ UNCHANGED <<serverFrame, report_file, log>>

\* line 175: f.write(html_content)
WriteReportOf(r) ==
    /\ running = r
    /\ requests[r].pc = "writing"
    /\ IF Encodable(requests[r].html_content)
       THEN /\ report_file' = requests[r].html_content
            /\ requests' = [requests EXCEPT ![r].pc = "return"]
       ELSE /\ UNCHANGED report_file
            /\ requests' = [requests EXCEPT ![r].pc = "except",
                                            ![r].exc = UnicodeEncodeError]
    /\ running' = AfterStep(r, "writing")
    /\ UNCHANGED <<serverFrame, log>>

\* lines 177-186: the handler returns and the loop is free
ReturnSuccessOf(r) ==
    /\ running = r
    /\ requests[r].pc = "return"
    /\ requests' = [requests EXCEPT
                      ![r].pc = "done",
                      ![r].response = SuccessResult(requests[r].df_churners,
                                                    requests[r].recommendations)]
    /\ running' = 0
    /\ log' = Append(log, r)
    /\ UNCHANGED <<serverFrame, report_file>>

\* lines 188-193: the handler returns and the loop is free
ReturnFailureOf(r) ==
    /\ running = r
    /\ requests[r].pc = "except"
    /\ requests' = [requests EXCEPT ![r].pc = "done",
                                    ![r].response = HandleException(requests[r].exc)]
    /\ running' = 0
    /\ log' = Append(log, r)
    /\ UNCHANGED <<serverFrame, report_file>>

NextServer ==
    \E r \in RequestIds :
        \/ Arrive(r)
        \/ Schedule(r)
        \/ BuildFrame(r)
        \/ AnalyseDriftOf(r)
        \/ GenerateReportOf(r)
        \/ RenderOf(r)
        \/ OpenReportOf(r)
        \/ OpenFailsOf(r)
        \/ WriteReportOf(r)
        \/ ReturnSuccessOf(r)
        \/ ReturnFailureOf(r)

SpecServer == InitServer /\ [][NextServer]_vars

\* request r is between the first and the last line of the handler
InHandler(r) == requests[r].pc \notin {"absent", "queued", "done"}

\* the documents the answered requests rendered
DocumentsOfRequests ==
    {requests[r].html_content :
        r \in {q \in RequestIds : requests[q].pc = "done" /\ requests[q].html_content # None}}

\* C23: each report request runs the whole pipeline to its end without
\* suspending, so the steps of several requests in flight in the one server
\* process never interleave, and the report file is always the complete
\* document of exactly one request (of a request of this run or of an earlier
\* one), never a mixture of two.
C23_NoInterleaving ==
    /\ \A r \in RequestIds : InHandler(r) => (running = r)
    /\ Cardinality({r \in RequestIds : InHandler(r)}) <= 1
    /\ (running = 0 /\ report_file # None) =>
          (report_file \in DocumentsOfRequests \cup {EarlierReport})

\* the places in the log of the requests that returned success
Successes == {i \in 1..Len(log) : requests[log[i]].response.success}

\* C24: the report is built fresh on each request and persisted to one fixed
\* path, overwriting any prior report: after any sequence of report requests
\* the file holds exactly the document rendered by the most recent successful
\* request and nothing from earlier ones.
C24_LastSuccessfulReport ==
    (running = 0 /\ Successes # {}) =>
        LET last == CHOOSE i \in Successes : \A j \in Successes : j <= i
        IN  report_file = requests[log[last]].html_content

----------------------------------------------------------------------------
(* _calculate_urgency_level called for one probability with two tenures:
   SpecUrgency *)

\* the tenures of the two calls
UrgencyTenures == Tenures \cup {Num(0), Num(1), Num(72)}

InitUrgency ==
    /\ args \in [churn_prob : Probabilities, tenure : UrgencyTenures,
                 other_tenure : UrgencyTenures]
    /\ rec_result = None
    /\ Idle
    /\ NoDrift
    /\ NoReport
    /\ NoPredict

\* the two calls of lines 125-134
CalculateUrgency ==
    /\ rec_result = None
    /\ rec_result' =
         [t |-> "done",
          urgency |-> _calculate_urgency_level(args.churn_prob, args.tenure),
          other_urgency |-> _calculate_urgency_level(args.churn_prob, args.other_tenure)]
    /\ UNCHANGED <<predictVars, serverVars, reportVars, args, churners_data,
                   df_churners, recommendations, pc, driftVars>>

NextUrgency == CalculateUrgency

SpecUrgency == InitUrgency /\ [][NextUrgency]_vars

----------------------------------------------------------------------------
(* The number of segments of a recommendation, checked under SpecRec *)

\* how many segments of the recommendation are among the strings S
Occurrences(S) == Cardinality({i \in 1..Len(segs) : segs[i] \in S})

\* C27: every recommendation string has at least 2 and at most 4 segments
\* and is never empty: the charge rule and the tenure rule each contribute
\* exactly one string whatever the customer, and the contract rule
\* contributes nothing for a contract other than Month-to-month and One year.
C27_TwoToFourSegments ==
    Done =>
        /\ rec_result.text # <<>>
        /\ Len(segs) >= 2
        /\ Len(segs) <= 4
        /\ Occurrences({PREMIUM, MIDTIER, LOYALTY}) = 1
        /\ Occurrences({MANAGER, REWARDS, LONGTERM}) = 1
        /\ (args.contract \notin {Str("Month-to-month"), Str("One year")}) =>
              (Occurrences({URGENT20, OFFER15, OFFER10}) = 0)

C27_Witness ==
    /\ Done
    /\ args.contract = Str("Two year")
    /\ args.tenure = Num(24)
    /\ args.monthly_charges = Num(50)
    /\ segs = <<LOYALTY, LONGTERM>>

----------------------------------------------------------------------------
(* The coverage lists for a feature without usable data, checked under
   SpecDrift *)

\* C28: a numerical feature whose column is in the batch and in the baseline
\* is listed under numerical_features_analyzed and not under
\* missing_features also when its finding is "insufficient data" because one
\* side has no usable value.
C28_InsufficientStillAnalysed ==
    (drift_results # None) =>
        LET coverage == drift_results.summary_stats.feature_coverage
        IN  \A f \in Insufficient :
               /\ f \in DOMAIN drift_results.numerical_drift
               /\ ~drift_results.numerical_drift[f].drift_detected
               /\ drift_results.numerical_drift[f].new_mean = None
               /\ f \in Range(coverage.numerical_features_analyzed)
               /\ f \notin Range(coverage.missing_features)

C28_Witness ==
    /\ drift_results # None
    /\ "TotalCharges" \in Insufficient
    /\ "TotalCharges" \in
          Range(drift_results.summary_stats.feature_coverage.numerical_features_analyzed)
    /\ drift_results.summary_stats.feature_coverage.missing_features # <<>>

----------------------------------------------------------------------------
(* A categorical column without values, checked under SpecCat *)

\* some value of the column has a share above 0.20 = 1/5 of its non-missing cells
SomeShareOver20(col) == \E v \in Seen(col) : 5 * CountOf(col, v) > NonMissing(col)

\* the finding is that of an analysis that was carried out
Carried ==
    /\ finding.warning # <<"Insufficient data for ", "Contract", " drift analysis">>
    /\ finding.drift_detected <=> (finding.warning # <<>>)

\* C29: categorical drift detection has no insufficient-data guard: when the
\* batch has no non-null value of the feature every batch proportion counts
\* as 0 and drift is flagged exactly when some category of the baseline has a
\* proportion above 0.20; symmetrically when the baseline has no non-null
\* value.
C29_NoCategoricalGuard ==
    (finding # None) =>
        LET affected == finding.shifted_categories
        IN  /\ (NonMissing(newContract) = 0) =>
                  /\ Carried
                  /\ DOMAIN finding.new_distribution = {}
                  /\ \A i \in 1..Len(affected) :
                        /\ affected[i].new_proportion = Num(0)
                        /\ affected[i].change = affected[i].baseline_proportion
                  /\ finding.drift_detected <=> SomeShareOver20(baseContract)
            /\ (NonMissing(baseContract) = 0) =>
                  /\ Carried
                  /\ DOMAIN finding.baseline_distribution = {}
                  /\ \A i \in 1..Len(affected) :
                        /\ affected[i].baseline_proportion = Num(0)
                        /\ affected[i].change = affected[i].new_proportion
                  /\ finding.drift_detected <=> SomeShareOver20(newContract)

C29_Witness ==
    /\ finding # None
    /\ Len(newContract) = 1
    /\ NonMissing(newContract) = 0
    /\ NonMissing(baseContract) = 5
    /\ finding.drift_detected
    /\ Len(finding.shifted_categories) = 2

====
